---- MODULE Spec2Model ----
(***************************************************************************)
(* A model of the lazy-sequence library nvie/itertools: the pull protocol  *)
(* of cursors and the stateful combinators built on it.  Every generator   *)
(* function of the source is a state machine here: its suspended position  *)
(* is a field, and one action is one pull (one call of next()).            *)
(***************************************************************************)
EXTENDS Integers, Sequences, FiniteSets, TLC

VARIABLES gb, sl, tw, dw, ad, pm, rr, hd, ch, du, tk, zp,
          zm, zl, rd, mm, es, fi, ue, uj,
          cy, ip, pt

vars == <<gb, sl, tw, dw, ad, pm, rr, hd, ch, du, tk, zp,
          zm, zl, rd, mm, es, fi, ue, uj,
          cy, ip, pt>>

\* A component that takes no part in the current run.
Idle == [idle |-> TRUE]

(***************************************************************************)
(* Bounds of the model.                                                    *)
(***************************************************************************)
MaxLen == 3

\* Cap on the elements pulled from the infinite cursor count().
MaxPulls == 6

\* Cap on the cursors and wrappers obtained from iter in one run.
MaxWrappers == 3

\* Cap on the number of inputs of roundrobin.
MaxInputs == 3

(***************************************************************************)
(* Cursors.  A cursor is what iterable[Symbol.iterator]() returns: an      *)
(* array iterator (kind "array"), a generator object over given values     *)
(* (kind "gen", the helper gen of the tests) or the infinite generator     *)
(* count(start, step) (kind "count").  pos is the number of elements       *)
(* pulled so far; closed is set when a generator has been finished by      *)
(* return(), which for-of calls when its body is left by break or return.  *)
(***************************************************************************)
ArrayCursor(xs) == [kind |-> "array", src |-> xs, pos |-> 0, closed |-> FALSE]

GenCursor(xs) == [kind |-> "gen", src |-> xs, pos |-> 0, closed |-> FALSE]

CountCursor(start) == [kind |-> "count", src |-> <<start>>, pos |-> 0, closed |-> FALSE]

\* next().done
CurDone(c) == c.closed \/ (c.kind # "count" /\ c.pos >= Len(c.src))

\* next().value, when not done
CurValue(c) == IF c.kind = "count" THEN c.src[1] + c.pos ELSE c.src[c.pos + 1]

\* the cursor after next()
CurNext(c) == IF CurDone(c) THEN c ELSE [c EXCEPT !.pos = @ + 1]

\* IteratorClose: for-of left early calls return() where the cursor has one;
\* generator objects have it, array iterators do not.
CurReturn(c) == IF c.kind = "array" THEN c ELSE [c EXCEPT !.closed = TRUE]

\* what Array.from(cursor) collects
CurRest(c) == IF CurDone(c) THEN <<>> ELSE SubSeq(c.src, c.pos + 1, Len(c.src))

\* Sequences over S of length at most n.
SeqsUpTo(S, n) == UNION {[1..k -> S] : k \in 0..n}

(***************************************************************************)
(* groupby                                                                 *)
(***************************************************************************)
Letters == {"a", "A", "b"}

KeyFns == {"primitiveIdentity", "toUpperCase"}

SENTINEL == "Symbol()"

keyFn(fn, x) == IF fn = "toUpperCase" /\ x = "a" THEN "A"
                ELSE IF fn = "toUpperCase" /\ x = "b" THEN "B"
                ELSE x

\* grouper(tgtKey): one pull on the inner cursor g of the groupby state s.
\* currentValue is the element read last, the one at position it.pos of the
\* input: at records these positions per inner cursor, yielded for all of
\* them in the order of the yields.
GrouperYieldOrReturn(s, g) ==
    IF s.currentKey = s.groups[g].tgtKey
    THEN [s EXCEPT !.groups[g].st = "yielded",
                   !.groups[g].out = Append(@, s.currentValue),
                   !.groups[g].at = Append(@, s.it.pos),
                   !.yielded = Append(@, s.it.pos)]
    ELSE [s EXCEPT !.groups[g].st = "done"]

GrouperStaleKeyMutant(s, g) ==
    IF s.groups[g].st = "done" THEN s
    ELSE IF s.groups[g].st = "start" THEN GrouperYieldOrReturn(s, g)
    ELSE IF CurDone(s.it) THEN [s EXCEPT !.groups[g].st = "done"]
    ELSE GrouperYieldOrReturn(
             [s EXCEPT !.currentValue = CurValue(s.it),
                       !.it = CurNext(s.it)], g)

grouper(s, g) ==
    IF s.groups[g].st = "done" THEN s
    ELSE IF s.groups[g].st = "start" THEN GrouperYieldOrReturn(s, g)
    ELSE IF CurDone(s.it) THEN [s EXCEPT !.groups[g].st = "done"]
    ELSE GrouperYieldOrReturn(
             [s EXCEPT !.currentValue = CurValue(s.it),
                       !.currentKey = keyFn(s.keyFn, CurValue(s.it)),
                       !.it = CurNext(s.it)], g)

\* The body of groupby from the top of its for (;;) to the next yield or return.
RECURSIVE groupbyLoop(_)
GroupbyNoSkipMutant(s) ==
    IF s.currentKey = s.targetKey /\ CurDone(s.it)
    THEN [s EXCEPT !.currentKey = SENTINEL, !.outer = "done"]
    ELSE LET n == IF s.currentKey = s.targetKey
                  THEN [s EXCEPT !.currentValue = CurValue(s.it),
                                 !.currentKey = keyFn(s.keyFn, CurValue(s.it)),
                                 !.it = CurNext(s.it)]
                  ELSE s
         IN  [n EXCEPT !.targetKey = n.currentKey,
                       !.outer = "yielded",
                       !.groups = Append(@, [tgtKey |-> n.currentKey,
                                             st |-> "start", out |-> <<>>,
                                             at |-> <<>>])]

GroupbyKeepsKeyAtEndMutant(s) ==
    IF s.currentKey = s.targetKey
    THEN IF CurDone(s.it)
         THEN [s EXCEPT !.outer = "done"]
         ELSE groupbyLoop([s EXCEPT !.currentValue = CurValue(s.it),
                                    !.currentKey = keyFn(s.keyFn, CurValue(s.it)),
                                    !.it = CurNext(s.it)])
    ELSE [s EXCEPT !.targetKey = s.currentKey,
                   !.outer = "yielded",
                   !.groups = Append(@, [tgtKey |-> s.currentKey,
                                         st |-> "start", out |-> <<>>,
                                             at |-> <<>>])]

groupbyLoop(s) ==
    IF s.currentKey = s.targetKey
    THEN IF CurDone(s.it)
         THEN [s EXCEPT !.currentKey = SENTINEL, !.outer = "done"]
         ELSE groupbyLoop([s EXCEPT !.currentValue = CurValue(s.it),
                                    !.currentKey = keyFn(s.keyFn, CurValue(s.it)),
                                    !.it = CurNext(s.it)])
    ELSE [s EXCEPT !.targetKey = s.currentKey,
                   !.outer = "yielded",
                   !.groups = Append(@, [tgtKey |-> s.currentKey,
                                         st |-> "start", out |-> <<>>,
                                             at |-> <<>>])]

\* One pull on the outer cursor.
groupby(s) == IF s.outer = "done" THEN s ELSE groupbyLoop(s)

GroupbyInit ==
    /\ \E xs \in SeqsUpTo(Letters, MaxLen), fn \in KeyFns :
          gb = [iterable |-> xs, keyFn |-> fn, it |-> ArrayCursor(xs),
                currentValue |-> "undefined", currentKey |-> SENTINEL,
                targetKey |-> SENTINEL, outer |-> "start", groups |-> <<>>,
                yielded |-> <<>>, drained |-> TRUE, current |-> TRUE]
    /\ sl = Idle /\ tw = Idle /\ dw = Idle /\ ad = Idle /\ pm = Idle /\ rr = Idle
    /\ hd = Idle /\ ch = Idle /\ du = Idle /\ tk = Idle /\ zp = Idle
    /\ zm = Idle /\ zl = Idle /\ rd = Idle /\ mm = Idle
    /\ es = Idle /\ fi = Idle /\ ue = Idle /\ uj = Idle
    /\ cy = Idle /\ ip = Idle /\ pt = Idle

\* The consumer pulls the outer cursor.  drained records whether every outer
\* pull so far came after the previous inner cursor had reported exhaustion.
GroupbyPullOuter ==
    /\ gb # Idle
    /\ gb' = [groupby(gb) EXCEPT
                !.drained = @ /\ (gb.groups = <<>>
                                  \/ gb.groups[Len(gb.groups)].st = "done")]
    /\ UNCHANGED <<sl, tw, dw, ad, pm, rr, hd, ch, du, tk, zp,
                   zm, zl, rd, mm, es, fi, ue, uj,
                   cy, ip, pt>>

\* The consumer pulls one of the inner cursors emitted so far.  current
\* records whether every inner pull so far was on the cursor emitted last.
GroupbyPullInner ==
    /\ gb # Idle
    /\ \E g \in 1..Len(gb.groups) :
          gb' = [grouper(gb, g) EXCEPT !.current = @ /\ g = Len(gb.groups)]
    /\ UNCHANGED <<sl, tw, dw, ad, pm, rr, hd, ch, du, tk, zp,
                   zm, zl, rd, mm, es, fi, ue, uj,
                   cy, ip, pt>>

GroupbyNext == GroupbyPullOuter \/ GroupbyPullInner

SpecGroupby == GroupbyInit /\ [][GroupbyNext]_vars

(***************************************************************************)
(* groupby: claims                                                         *)
(***************************************************************************)
\* Length of the maximal run of elements with the key of xs[1] at the head of xs.
RunLen(xs, fn) ==
    CHOOSE n \in 1..Len(xs) :
        /\ \A i \in 1..n : keyFn(fn, xs[i]) = keyFn(fn, xs[1])
        /\ n = Len(xs) \/ keyFn(fn, xs[n + 1]) # keyFn(fn, xs[1])

\* The maximal runs of consecutive elements with equal key, in input order.
RECURSIVE RunsOf(_, _)
RunsOf(xs, fn) ==
    IF xs = <<>> THEN <<>>
    ELSE <<[key |-> keyFn(fn, xs[1]), elems |-> SubSeq(xs, 1, RunLen(xs, fn))]>>
         \o RunsOf(SubSeq(xs, RunLen(xs, fn) + 1, Len(xs)), fn)

IsPrefix(p, xs) == Len(p) <= Len(xs) /\ p = SubSeq(xs, 1, Len(p))

\* C1: when every inner cursor is drained before the next outer pull, groupby
\* emits one (key, group) pair per maximal run of equal keys, in input order,
\* each inner cursor yields exactly the elements of its run, and runs with the
\* same key separated by other keys are separate groups.
C1_GroupsAreRuns ==
    (gb # Idle /\ gb.drained) =>
        LET runs == RunsOf(gb.iterable, gb.keyFn)
            n == Len(gb.groups)
        IN /\ n <= Len(runs)
           /\ \A g \in 1..n :
                 /\ gb.groups[g].tgtKey = runs[g].key
                 /\ IsPrefix(gb.groups[g].out, runs[g].elems)
                 /\ gb.groups[g].st = "done" => gb.groups[g].out = runs[g].elems
           /\ gb.outer = "done" => n = Len(runs)

\* A drained run over a,b,a: three groups, the first and the last with key a.
C1_Witness ==
    /\ gb # Idle /\ gb.drained /\ gb.outer = "done"
    /\ Len(gb.groups) = 3
    /\ gb.groups[1].tgtKey = gb.groups[3].tgtKey
    /\ \A g \in 1..3 : gb.groups[g].st = "done" /\ gb.groups[g].out # <<>>

\* The outer cursor has been advanced past group g.
Stale(g) == g < Len(gb.groups) \/ gb.outer = "done"

\* C2: once the outer cursor has been advanced past a group, no later pull
\* on that group's inner cursor yields an element.
C2_StaleInnerYieldsNothing ==
    [][gb # Idle =>
          \A g \in 1..Len(gb.groups) :
              Stale(g) => gb'.groups[g].out = gb.groups[g].out]_vars

\* C17: whatever part of each current inner cursor was pulled before the
\* outer cursor was advanced (none, some or all), the keys yielded by the
\* outer cursor are the run keys of the input: advancing skips the rest of
\* the current run, and no group yields an element of another run.
C17_OuterKeysAreRunKeys ==
    (gb # Idle /\ gb.current) =>
        LET runs == RunsOf(gb.iterable, gb.keyFn)
            n == Len(gb.groups)
        IN /\ n <= Len(runs)
           /\ \A g \in 1..n :
                 /\ gb.groups[g].tgtKey = runs[g].key
                 /\ IsPrefix(gb.groups[g].out, runs[g].elems)
           /\ gb.outer = "done" => n = Len(runs)

\* a,a,b with one element of the first group pulled and none of the second:
\* the outer cursor yielded the keys of the two runs and finished.
C17_Witness ==
    /\ gb # Idle /\ gb.current /\ gb.outer = "done"
    /\ gb.iterable = <<"a", "a", "b">> /\ Len(gb.groups) = 2
    /\ gb.groups[1].out = <<"a">> /\ gb.groups[1].st = "yielded"
    /\ gb.groups[2].out = <<>>

\* C18: once the upstream is exhausted and the outer cursor has reported
\* exhaustion, every later pull on the outer cursor and on every inner cursor
\* it emitted (never pulled, partly consumed or drained) reports exhaustion:
\* no group is added and no element is yielded.
C18_AllExhaustedAfterEnd ==
    [][(gb # Idle /\ gb.outer = "done") =>
          /\ CurDone(gb.it)
          /\ gb'.outer = "done"
          /\ Len(gb'.groups) = Len(gb.groups)
          /\ \A g \in 1..Len(gb.groups) :
                /\ gb'.groups[g].out = gb.groups[g].out
                /\ gb'.groups[g].st \in {gb.groups[g].st, "done"}
      ]_vars

\* a,a with the only inner cursor never pulled before the outer cursor
\* finished: pulled afterwards it reported exhaustion without a value.
C18_Witness ==
    /\ gb # Idle /\ gb.outer = "done" /\ gb.iterable = <<"a", "a">>
    /\ Len(gb.groups) = 1
    /\ gb.groups[1].st = "done" /\ gb.groups[1].out = <<>>

\* C37: a pull on a stale inner cursor has no effect besides reporting
\* exhaustion: it yields nothing, pulls nothing from the shared upstream
\* cursor and leaves the key and the element the outer cursor and the current
\* inner cursor go on from as they were, also when the stale cursor had been
\* partly consumed.  (A pull on inner cursor g is the only step that changes
\* groups[g].)
C37_StalePullHasNoEffect ==
    [][gb # Idle =>
          \A g \in 1..Len(gb.groups) :
              (Stale(g) /\ gb'.groups[g] # gb.groups[g]) =>
                  /\ gb'.groups[g].st = "done"
                  /\ gb'.groups[g].out = gb.groups[g].out
                  /\ gb'.it = gb.it
                  /\ gb'.currentKey = gb.currentKey
                  /\ gb'.currentValue = gb.currentValue]_vars

\* C38: under every interleaving of pulls on the outer cursor and on the
\* inner cursors, each upstream element is yielded at most once in all, every
\* yielded element has the key of the group whose cursor yielded it, and
\* elements are yielded in upstream order.
C38_EachElementYieldedOnce ==
    gb # Idle =>
        /\ \A g, h \in 1..Len(gb.groups) :
              \A i \in 1..Len(gb.groups[g].at), j \in 1..Len(gb.groups[h].at) :
                 (g # h \/ i # j) => gb.groups[g].at[i] # gb.groups[h].at[j]
        /\ \A g \in 1..Len(gb.groups) : \A i \in 1..Len(gb.groups[g].at) :
              /\ gb.groups[g].out[i] = gb.iterable[gb.groups[g].at[i]]
              /\ keyFn(gb.keyFn, gb.groups[g].out[i]) = gb.groups[g].tgtKey
        /\ \A i \in 1..(Len(gb.yielded) - 1) : gb.yielded[i] < gb.yielded[i + 1]

(***************************************************************************)
(* islice                                                                  *)
(***************************************************************************)
\* The cursor over the values 1..n, array-backed or generator-backed.
Upto(n) == [i \in 1..n |-> i]

FiniteCursors(n) ==
    {ArrayCursor(Upto(k)) : k \in 0..n} \cup {GenCursor(Upto(k)) : k \in 0..n}

\* JavaScript's undefined and null, and a number, as argument values.
Undefined == [type |-> "undefined"]

Null == [type |-> "null"]

Num(n) == [type |-> "number", value |-> n]

\* islice(iterable, stopOrStart, possiblyStop, step): which argument is which.
SliceStart(a) == IF a.possiblyStop # Undefined THEN a.stopOrStart ELSE 0

SliceStop(a) == IF a.possiblyStop # Undefined THEN a.possiblyStop ELSE Num(a.stopOrStart)

\* slicePredicate throws on these arguments.
SliceThrows(start, stop, step) ==
    \/ start < 0
    \/ stop # Null /\ stop.value < 0
    \/ step < 0

\* The predicate slicePredicate(start, stop, step) returns, applied to n.
SlicePredicateStrideFromZeroMutant(start, stop, step, n) ==
    /\ n >= start
    /\ stop # Null => n < stop.value
    /\ step > 1 => n % step = 0

slicePredicate(start, stop, step, n) ==
    /\ n >= start
    /\ stop # Null => n < stop.value
    /\ step > 1 => (n - start) % step = 0

\* One pass through the for-of loop of islice: enumerate pulls one element of
\* the upstream and numbers it, islice yields it when the predicate holds.
isliceStep(s) ==
    IF CurDone(s.it) THEN [s EXCEPT !.st = "done"]
    ELSE LET n == [s EXCEPT !.it = CurNext(s.it), !.index = @ + 1]
         IN IF slicePredicate(SliceStart(s.args), SliceStop(s.args), s.args.step, s.index)
            THEN [n EXCEPT !.st = "suspended", !.out = Append(@, CurValue(s.it))]
            ELSE n

\* next() on the islice cursor: the first call runs slicePredicate, every call
\* then enters the loop; a finished generator stays finished.
islice(s) ==
    IF s.st \in {"done", "threw"} THEN s
    ELSE IF s.st = "start"
            /\ SliceThrows(SliceStart(s.args), SliceStop(s.args), s.args.step)
    THEN [s EXCEPT !.st = "threw"]
    ELSE [s EXCEPT !.st = "running"]

SliceArgs ==
    [stopOrStart : -1..MaxLen,
     possiblyStop : {Undefined, Null} \cup {Num(n) : n \in -1..MaxLen},
     step : -1..2]

IsliceInit ==
    /\ \E c \in FiniteCursors(MaxLen + 1) \cup {CountCursor(1)}, a \in SliceArgs :
          sl = [it |-> c, args |-> a, index |-> 0, st |-> "start",
                out |-> <<>>, direct |-> <<>>]
    /\ gb = Idle /\ tw = Idle /\ dw = Idle /\ ad = Idle /\ pm = Idle /\ rr = Idle
    /\ hd = Idle /\ ch = Idle /\ du = Idle /\ tk = Idle /\ zp = Idle
    /\ zm = Idle /\ zl = Idle /\ rd = Idle /\ mm = Idle
    /\ es = Idle /\ fi = Idle /\ ue = Idle /\ uj = Idle
    /\ cy = Idle /\ ip = Idle /\ pt = Idle

\* The consumer calls next() on the islice cursor.
IslicePull ==
    /\ sl # Idle /\ sl.st # "running"
    /\ sl' = islice(sl)
    /\ UNCHANGED <<gb, tw, dw, ad, pm, rr, hd, ch, du, tk, zp,
                   zm, zl, rd, mm, es, fi, ue, uj,
                   cy, ip, pt>>

\* The call is inside the loop of islice, which runs until it yields or the
\* upstream ends; the loop may never do either, so a pass is a step of its own.
IsliceLoop ==
    /\ sl # Idle /\ sl.st = "running"
    /\ sl.it.pos < MaxPulls
    /\ sl' = isliceStep(sl)
    /\ UNCHANGED <<gb, tw, dw, ad, pm, rr, hd, ch, du, tk, zp,
                   zm, zl, rd, mm, es, fi, ue, uj,
                   cy, ip, pt>>

\* After islice has finished the consumer pulls the shared cursor directly.
IsliceContinue ==
    /\ sl # Idle /\ sl.st = "done"
    /\ sl' = [sl EXCEPT !.it = CurNext(sl.it),
                        !.direct = IF CurDone(sl.it) THEN @
                                   ELSE Append(@, CurValue(sl.it))]
    /\ UNCHANGED <<gb, tw, dw, ad, pm, rr, hd, ch, du, tk, zp,
                   zm, zl, rd, mm, es, fi, ue, uj,
                   cy, ip, pt>>

IsliceNext == IslicePull \/ IsliceLoop \/ IsliceContinue

SpecIslice == IsliceInit /\ [][IsliceNext]_vars

(***************************************************************************)
(* islice: claims                                                          *)
(***************************************************************************)
SliceValid(a) ==
    /\ ~SliceThrows(SliceStart(a), SliceStop(a), a.step)
    /\ a.step >= 1

\* C3: over an infinite upstream and with valid finite start, stop and step,
\* islice never pulls more than stop elements from the upstream.
C3_NeverPullsPastStop ==
    (sl # Idle /\ sl.it.kind = "count" /\ SliceValid(sl.args)
        /\ SliceStop(sl.args) # Null)
    => sl.it.pos <= SliceStop(sl.args).value

\* C4: once islice over a shared cursor holding more than stop elements is
\* drained, exactly the first stop elements are consumed, and direct pulls
\* return the elements from index stop on, in order.
C4_ContinuationAfterStop ==
    (sl # Idle /\ sl.st = "done" /\ SliceValid(sl.args)
        /\ SliceStop(sl.args) # Null /\ Len(sl.it.src) > SliceStop(sl.args).value)
    => /\ sl.it.pos = SliceStop(sl.args).value + Len(sl.direct)
       /\ IsPrefix(sl.direct,
                   SubSeq(sl.it.src, SliceStop(sl.args).value + 1, Len(sl.it.src)))

\* The elements of xs whose 0-based index i has i >= start, i < stop unless
\* stop is null, and (i - start) a multiple of step, in input order.
ExpectedSlice(xs, start, stop, step) ==
    LET picked == SelectSeq([k \in 1..Len(xs) |-> k - 1],
                            LAMBDA i : /\ i >= start
                                       /\ stop # Null => i < stop.value
                                       /\ (i - start) % step = 0)
    IN  [k \in 1..Len(picked) |-> xs[picked[k] + 1]]

\* C14: for valid parameters and a finite input, islice yields, in input
\* order, exactly the elements whose 0-based index i satisfies i >= start,
\* (stop is null or i < stop) and (i - start) mod step = 0; a single number,
\* or an undefined second argument, makes that number stop and start 0, and
\* a null stop is no upper bound.
C14_IsliceIndexSet ==
    (sl # Idle /\ sl.it.kind # "count" /\ SliceValid(sl.args)) =>
        LET a == sl.args
            start == IF a.possiblyStop = Undefined THEN 0 ELSE a.stopOrStart
            stop == IF a.possiblyStop = Undefined THEN Num(a.stopOrStart)
                    ELSE a.possiblyStop
            expected == ExpectedSlice(sl.it.src, start, stop, a.step)
        IN  /\ IsPrefix(sl.out, expected)
            /\ sl.st = "done" => sl.out = expected

\* islice(xs, 1, null, 2) over four elements, drained: the elements at the
\* indices 1 and 3.
C14_Witness ==
    /\ sl # Idle /\ sl.st = "done" /\ sl.it.kind # "count" /\ Len(sl.it.src) = 4
    /\ sl.args = [stopOrStart |-> 1, possiblyStop |-> Null, step |-> 2]
    /\ sl.out = <<2, 4>>

\* C15: islice raises a usage error when start < 0, when stop < 0 or when
\* step <= 0 (step = 0 as well as a negative step), and it raises before any
\* element has been pulled from the upstream, whose position is unchanged.
C15_IsliceUsageErrors ==
    (/\ sl # Idle /\ sl.st # "start"
     /\ \/ SliceStart(sl.args) < 0
        \/ SliceStop(sl.args) # Null /\ SliceStop(sl.args).value < 0
        \/ sl.args.step <= 0)
    => (sl.st = "threw" /\ sl.it.pos = 0)

(***************************************************************************)
(* takewhile and dropwhile                                                 *)
(***************************************************************************)
Numbers == {-1, 1, 2}

Predicates == {"isPositive", "isEven", "isEvenIndex"}

\* The predicates of the tests.  isEvenIndex looks at its second parameter
\* only; called without one it computes undefined % 2 === 0, which is false.
isEven(x) == x % 2 = 0

isEvenIndex(x, index) == index # Undefined /\ index.value % 2 = 0

isPositive(x) == x >= 0

\* The call p(x, index) of a test predicate.
Apply(p, x, index) ==
    IF p = "isPositive" THEN isPositive(x)
    ELSE IF p = "isEven" THEN isEven(x)
    ELSE isEvenIndex(x, index)

\* Both functions call predicate(value), with one argument.
predicate(p, x) == Apply(p, x, Undefined)

SharedCursors(n) ==
    {ArrayCursor(xs) : xs \in SeqsUpTo(Numbers, n)}
        \cup {GenCursor(xs) : xs \in SeqsUpTo(Numbers, n)}

TakewhileRestartsMutant(s) ==
    IF CurDone(s.it) THEN [s EXCEPT !.st = "done"]
    ELSE IF ~predicate(s.pred, CurValue(s.it))
    THEN [s EXCEPT !.st = "done", !.it = CurReturn(CurNext(s.it))]
    ELSE [s EXCEPT !.st = "yielded", !.it = CurNext(s.it),
                   !.out = Append(@, CurValue(s.it))]

\* next() on the takewhile cursor: for-of pulls one element; when the predicate
\* fails the generator returns from inside the loop, which closes the upstream.
\* A generator that has returned stays finished.
takewhile(s) ==
    IF s.st = "done" THEN s
    ELSE IF CurDone(s.it) THEN [s EXCEPT !.st = "done"]
    ELSE IF ~predicate(s.pred, CurValue(s.it))
    THEN [s EXCEPT !.st = "done", !.it = CurReturn(CurNext(s.it))]
    ELSE [s EXCEPT !.st = "yielded", !.it = CurNext(s.it),
                   !.out = Append(@, CurValue(s.it))]

TakewhileInit ==
    /\ \E c \in SharedCursors(MaxLen + 1), p \in Predicates :
          tw = [it |-> c, pred |-> p, st |-> "start", out |-> <<>>, direct |-> <<>>]
    /\ gb = Idle /\ sl = Idle /\ dw = Idle /\ ad = Idle /\ pm = Idle /\ rr = Idle
    /\ hd = Idle /\ ch = Idle /\ du = Idle /\ tk = Idle /\ zp = Idle
    /\ zm = Idle /\ zl = Idle /\ rd = Idle /\ mm = Idle
    /\ es = Idle /\ fi = Idle /\ ue = Idle /\ uj = Idle
    /\ cy = Idle /\ ip = Idle /\ pt = Idle

\* The consumer calls next() on the takewhile cursor.
TakewhilePull ==
    /\ tw # Idle
    /\ tw' = takewhile(tw)
    /\ UNCHANGED <<gb, sl, dw, ad, pm, rr, hd, ch, du, tk, zp,
                   zm, zl, rd, mm, es, fi, ue, uj,
                   cy, ip, pt>>

\* After takewhile has finished, the next consumer pulls the shared cursor.
TakewhileContinue ==
    /\ tw # Idle /\ tw.st = "done"
    /\ tw' = [tw EXCEPT !.it = CurNext(tw.it),
                        !.direct = IF CurDone(tw.it) THEN @
                                   ELSE Append(@, CurValue(tw.it))]
    /\ UNCHANGED <<gb, sl, dw, ad, pm, rr, hd, ch, du, tk, zp,
                   zm, zl, rd, mm, es, fi, ue, uj,
                   cy, ip, pt>>

TakewhileNext == TakewhilePull \/ TakewhileContinue

SpecTakewhile == TakewhileInit /\ [][TakewhileNext]_vars

\* The first loop of dropwhile, from a pull to its yield or to the end of the
\* upstream.
RECURSIVE dropwhileSkip(_)
dropwhileSkip(s) ==
    IF CurDone(s.it) THEN [s EXCEPT !.st = "done"]
    ELSE IF ~predicate(s.pred, CurValue(s.it))
    THEN [s EXCEPT !.st = "first", !.it = CurNext(s.it),
                   !.out = Append(@, CurValue(s.it))]
    ELSE dropwhileSkip([s EXCEPT !.it = CurNext(s.it)])

\* The second loop of dropwhile: pass the next element through.
dropwhilePass(s) ==
    IF CurDone(s.it) THEN [s EXCEPT !.st = "done"]
    ELSE [s EXCEPT !.st = "passing", !.it = CurNext(s.it),
                   !.out = Append(@, CurValue(s.it))]

\* next() on the dropwhile cursor.  Resumed after its first yield it leaves the
\* first loop by break, which closes the cursor it, and enters the second loop
\* over the same it.
dropwhile(s) ==
    IF s.st = "done" THEN s
    ELSE IF s.st = "start" THEN dropwhileSkip(s)
    ELSE IF s.st = "first" THEN dropwhilePass([s EXCEPT !.it = CurReturn(s.it)])
    ELSE dropwhilePass(s)

DropwhileInit ==
    /\ \E c \in SharedCursors(MaxLen + 1), p \in Predicates :
          dw = [it |-> c, pred |-> p, st |-> "start", out |-> <<>>]
    /\ gb = Idle /\ sl = Idle /\ tw = Idle /\ ad = Idle /\ pm = Idle /\ rr = Idle
    /\ hd = Idle /\ ch = Idle /\ du = Idle /\ tk = Idle /\ zp = Idle
    /\ zm = Idle /\ zl = Idle /\ rd = Idle /\ mm = Idle
    /\ es = Idle /\ fi = Idle /\ ue = Idle /\ uj = Idle
    /\ cy = Idle /\ ip = Idle /\ pt = Idle

\* The consumer calls next() on the dropwhile cursor.
DropwhilePull ==
    /\ dw # Idle
    /\ dw' = dropwhile(dw)
    /\ UNCHANGED <<gb, sl, tw, ad, pm, rr, hd, ch, du, tk, zp,
                   zm, zl, rd, mm, es, fi, ue, uj,
                   cy, ip, pt>>

DropwhileNext == DropwhilePull

SpecDropwhile == DropwhileInit /\ [][DropwhileNext]_vars

(***************************************************************************)
(* takewhile and dropwhile: claims                                         *)
(***************************************************************************)
\* Length of the longest prefix of xs whose elements, with their 0-based
\* indices, satisfy p.
PrefixLen(xs, p) ==
    CHOOSE k \in 0..Len(xs) :
        /\ \A i \in 1..k : Apply(p, xs[i], Num(i - 1))
        /\ k = Len(xs) \/ ~Apply(p, xs[k + 1], Num(k))

\* C5: a drained takewhile over a shared cursor has yielded the longest prefix
\* satisfying the predicate and consumed the first failing element besides;
\* the elements after the failing one are what the next consumer of the
\* cursor gets, for array-backed and generator-backed cursors alike.
C5_TakewhileLeavesRest ==
    (tw # Idle /\ tw.st = "done") =>
        LET k == PrefixLen(tw.it.src, tw.pred)
            n == Len(tw.it.src)
        IN /\ tw.out = SubSeq(tw.it.src, 1, k)
           /\ k < n => tw.direct \o CurRest(tw.it) = SubSeq(tw.it.src, k + 2, n)

\* C6: dropwhile yields every upstream element from the first one that fails
\* the predicate on, in order, for array-backed and generator-backed cursors.
C6_DropwhileYieldsRest ==
    (dw # Idle /\ dw.st = "done") =>
        dw.out = SubSeq(dw.it.src, PrefixLen(dw.it.src, dw.pred) + 1, Len(dw.it.src))

\* C16: takewhile and dropwhile call their predicate with (element, index),
\* index being the 0-based count of the elements this invocation pulled
\* before: with the predicate 'index is even' and at least two elements,
\* takewhile yields only the first element and dropwhile drops only the first.
C16_PredicateGetsIndex ==
    /\ (tw # Idle /\ tw.pred = "isEvenIndex" /\ tw.st = "done"
            /\ Len(tw.it.src) >= 2)
       => tw.out = <<tw.it.src[1]>>
    /\ (dw # Idle /\ dw.pred = "isEvenIndex" /\ dw.st = "done"
            /\ dw.it.kind = "array" /\ Len(dw.it.src) >= 2)
       => dw.out = Tail(dw.it.src)

(***************************************************************************)
(* iter                                                                    *)
(***************************************************************************)
\* iter(x) is x[Symbol.iterator]().  Cursors are objects on a heap: a sequence
\* answers with a new cursor at its start, a cursor answers with itself.
IterCopiesCursorMutant(heap, x) ==
    IF x.type = "cursor"
    THEN [heap |-> Append(heap, heap[x.ref]), ref |-> Len(heap) + 1]
    ELSE [heap |-> Append(heap, ArrayCursor(x.s)), ref |-> Len(heap) + 1]

iter(heap, x) ==
    IF x.type = "cursor"
    THEN [heap |-> heap, ref |-> x.ref]
    ELSE [heap |-> Append(heap, ArrayCursor(x.s)), ref |-> Len(heap) + 1]

\* The run starts with c = iter(s): wrapper 1.
AdapterInit ==
    /\ \E n \in 0..MaxLen :
          LET c == iter(<<>>, [type |-> "sequence", s |-> Upto(n)])
          IN ad = [s |-> Upto(n), heap |-> c.heap,
                   wrappers |-> <<[ref |-> c.ref, root |-> 1]>>,
                   seen |-> <<<<>>>>, exhausted |-> {}]
    /\ gb = Idle /\ sl = Idle /\ tw = Idle /\ dw = Idle /\ pm = Idle /\ rr = Idle
    /\ hd = Idle /\ ch = Idle /\ du = Idle /\ tk = Idle /\ zp = Idle
    /\ zm = Idle /\ zl = Idle /\ rd = Idle /\ mm = Idle
    /\ es = Idle /\ fi = Idle /\ ue = Idle /\ uj = Idle
    /\ cy = Idle /\ ip = Idle /\ pt = Idle

\* iter applied to a cursor obtained earlier: one more wrapper of its root.
AdapterWrap ==
    /\ ad # Idle /\ Len(ad.wrappers) < MaxWrappers
    /\ \E w \in 1..Len(ad.wrappers) :
          LET r == iter(ad.heap, [type |-> "cursor", ref |-> ad.wrappers[w].ref])
          IN ad' = [ad EXCEPT !.heap = r.heap,
                              !.wrappers = Append(@, [ref |-> r.ref,
                                                      root |-> ad.wrappers[w].root]),
                              !.seen = Append(@, <<>>)]
    /\ UNCHANGED <<gb, sl, tw, dw, pm, rr, hd, ch, du, tk, zp,
                   zm, zl, rd, mm, es, fi, ue, uj,
                   cy, ip, pt>>

\* iter applied to the sequence once more: an independent cursor.
AdapterFresh ==
    /\ ad # Idle /\ Len(ad.wrappers) < MaxWrappers
    /\ LET r == iter(ad.heap, [type |-> "sequence", s |-> ad.s])
       IN ad' = [ad EXCEPT !.heap = r.heap,
                           !.wrappers = Append(@, [ref |-> r.ref,
                                                   root |-> Len(ad.wrappers) + 1]),
                           !.seen = Append(@, <<>>)]
    /\ UNCHANGED <<gb, sl, tw, dw, pm, rr, hd, ch, du, tk, zp,
                   zm, zl, rd, mm, es, fi, ue, uj,
                   cy, ip, pt>>

\* next() through wrapper w; seen[r] lists the values pulled through the
\* wrappers of root r, each with the wrapper that returned it.
AdapterPull ==
    /\ ad # Idle
    /\ \E w \in 1..Len(ad.wrappers) :
          LET ref == ad.wrappers[w].ref
          IN ad' = IF CurDone(ad.heap[ref])
                   THEN [ad EXCEPT !.exhausted = @ \cup {w}]
                   ELSE [ad EXCEPT !.heap[ref] = CurNext(@),
                                   !.seen[ad.wrappers[w].root] =
                                       Append(@, [w |-> w,
                                                  v |-> CurValue(ad.heap[ref])])]
    /\ UNCHANGED <<gb, sl, tw, dw, pm, rr, hd, ch, du, tk, zp,
                   zm, zl, rd, mm, es, fi, ue, uj,
                   cy, ip, pt>>

AdapterNext == AdapterWrap \/ AdapterFresh \/ AdapterPull

SpecAdapter == AdapterInit /\ [][AdapterNext]_vars

(***************************************************************************)
(* iter: claims                                                            *)
(***************************************************************************)
\* The values pulled through the wrappers of root r, in the order of the pulls.
SeenOf(r) == [i \in 1..Len(ad.seen[r]) |-> ad.seen[r][i].v]

\* C7: all wrappers iter(iter(...iter(c))) of a cursor c = iter(s) advance the
\* one position of c: the values pulled through them, taken together, are the
\* elements of s in order with none repeated, and when one wrapper has reported
\* exhaustion all of them are exhausted.
C7_WrappersShareState ==
    ad # Idle =>
        \A w \in 1..Len(ad.wrappers) :
            /\ IsPrefix(SeenOf(ad.wrappers[w].root), ad.s)
            /\ \A v \in ad.exhausted :
                  ad.wrappers[v].root = ad.wrappers[w].root
                     => /\ CurDone(ad.heap[ad.wrappers[w].ref])
                        /\ SeenOf(ad.wrappers[w].root) = ad.s

\* Three wrappers of c, each of which has produced a value, and c exhausted.
C7_Witness ==
    /\ ad # Idle /\ Len(ad.wrappers) = 3
    /\ \A w \in 1..3 : ad.wrappers[w].root = 1
    /\ \A w \in 1..3 : \E i \in 1..Len(ad.seen[1]) : ad.seen[1][i].w = w
    /\ ad.exhausted # {}

(***************************************************************************)
(* permutations                                                            *)
(***************************************************************************)
\* Array.from(range(start, stop, step)): start, start + step, ... while the
\* value is below stop (step >= 0) or above stop (step < 0).
RECURSIVE range(_, _, _)
range(start, stop, step) ==
    IF (step >= 0 /\ start < stop) \/ (step < 0 /\ start > stop)
    THEN <<start>> \o range(start + step, stop, step)
    ELSE <<>>

\* array.slice(from, to) for 0 <= from, with JavaScript's reading of a
\* negative or too large to.
slice(a, from, to) ==
    LET e == IF to < 0 THEN IF Len(a) + to < 0 THEN 0 ELSE Len(a) + to
             ELSE IF to > Len(a) THEN Len(a) ELSE to
    IN SubSeq(a, from + 1, e)

\* indices.slice(0, x).map(poolgetter)
Selection(s) == [i \in 1..Len(slice(s.indices, 0, s.x)) |-> s.pool[s.indices[i] + 1]]

\* The for loop of permutations from position i down to 0, to its yield or its
\* clean exit.
RECURSIVE permScan(_, _)
PermScanLosesSwapMutant(s, i) ==
    IF i < 0 THEN [s EXCEPT !.st = "done"]
    ELSE IF s.cycles[i + 1] - 1 = 0
    THEN permScan([s EXCEPT !.indices = slice(s.indices, 0, i)
                                          \o slice(s.indices, i + 1, s.n)
                                          \o slice(s.indices, i, i + 1),
                            !.cycles[i + 1] = s.n - i], i - 1)
    ELSE LET j == s.cycles[i + 1] - 1
             swapped == [s EXCEPT !.cycles[i + 1] = j,
                                  !.indices[i + 1] = s.indices[s.n - j + 1]]
         IN [swapped EXCEPT !.st = "yielded", !.out = Append(@, Selection(swapped))]

PermScanNoRotateMutant(s, i) ==
    IF i < 0 THEN [s EXCEPT !.st = "done"]
    ELSE IF s.cycles[i + 1] - 1 = 0
    THEN permScan([s EXCEPT !.cycles[i + 1] = s.n - i], i - 1)
    ELSE LET j == s.cycles[i + 1] - 1
             swapped == [s EXCEPT !.cycles[i + 1] = j,
                                  !.indices[i + 1] = s.indices[s.n - j + 1],
                                  !.indices[s.n - j + 1] = s.indices[i + 1]]
         IN [swapped EXCEPT !.st = "yielded", !.out = Append(@, Selection(swapped))]

permScan(s, i) ==
    IF i < 0 THEN [s EXCEPT !.st = "done"]
    ELSE IF s.cycles[i + 1] - 1 = 0
    THEN permScan([s EXCEPT !.indices = slice(s.indices, 0, i)
                                          \o slice(s.indices, i + 1, s.n)
                                          \o slice(s.indices, i, i + 1),
                            !.cycles[i + 1] = s.n - i], i - 1)
    ELSE LET j == s.cycles[i + 1] - 1
             swapped == [s EXCEPT !.cycles[i + 1] = j,
                                  !.indices[i + 1] = s.indices[s.n - j + 1],
                                  !.indices[s.n - j + 1] = s.indices[i + 1]]
         IN [swapped EXCEPT !.st = "yielded", !.out = Append(@, Selection(swapped))]

\* next() on the permutations cursor.
permutations(s) ==
    IF s.st = "done" THEN s
    ELSE IF s.st = "start"
    THEN IF s.x > s.n THEN [s EXCEPT !.st = "done"]
         ELSE [s EXCEPT !.st = "yielded", !.out = Append(@, Selection(s))]
    ELSE IF s.n > 0 THEN permScan(s, s.x - 1)
    ELSE [s EXCEPT !.st = "done"]

Pools == SeqsUpTo({1, 2}, MaxLen) \cup {Upto(k) : k \in 0..MaxLen}

PermutationsInit ==
    /\ \E pool \in Pools :
       \E r \in {Undefined} \cup {Num(k) : k \in -1..(Len(pool) + 1)} :
          LET n == Len(pool)
              x == IF r = Undefined THEN n ELSE r.value
          IN pm = [pool |-> pool, r |-> r, n |-> n, x |-> x,
                   indices |-> range(0, n, 1), cycles |-> range(n, n - x, -1),
                   st |-> "start", out |-> <<>>]
    /\ gb = Idle /\ sl = Idle /\ tw = Idle /\ dw = Idle /\ ad = Idle /\ rr = Idle
    /\ hd = Idle /\ ch = Idle /\ du = Idle /\ tk = Idle /\ zp = Idle
    /\ zm = Idle /\ zl = Idle /\ rd = Idle /\ mm = Idle
    /\ es = Idle /\ fi = Idle /\ ue = Idle /\ uj = Idle
    /\ cy = Idle /\ ip = Idle /\ pt = Idle

\* The consumer calls next() on the permutations cursor.
PermutationsPull ==
    /\ pm # Idle
    /\ pm' = permutations(pm)
    /\ UNCHANGED <<gb, sl, tw, dw, ad, rr, hd, ch, du, tk, zp,
                   zm, zl, rd, mm, es, fi, ue, uj,
                   cy, ip, pt>>

PermutationsNext == PermutationsPull

SpecPermutations == PermutationsInit /\ [][PermutationsNext]_vars

(***************************************************************************)
(* permutations: claims                                                    *)
(***************************************************************************)
RECURSIVE Factorial(_)
Factorial(k) == IF k <= 0 THEN 1 ELSE k * Factorial(k - 1)

SetMin(S) == CHOOSE a \in S : \A b \in S : a <= b

\* All r-tuples of pairwise distinct members of avail, in lexicographic order.
RECURSIVE LexTuples(_, _), LexTuplesFrom(_, _, _)
LexTuples(avail, r) ==
    IF r = 0 THEN << <<>> >> ELSE LexTuplesFrom(avail, r, avail)

LexTuplesFrom(avail, r, heads) ==
    IF heads = {} THEN <<>>
    ELSE LET a == SetMin(heads)
             tails == LexTuples(avail \ {a}, r - 1)
         IN [i \in 1..Len(tails) |-> <<a>> \o tails[i]]
            \o LexTuplesFrom(avail, r, heads \ {a})

\* The results permutations is to yield for a pool and 0 <= r <= n.
ExpectedPermutations(pool, r) ==
    LET tuples == LexTuples(0..(Len(pool) - 1), r)
    IN [i \in 1..Len(tuples) |-> [k \in 1..r |-> pool[tuples[i][k] + 1]]]

\* Lexicographic order of two tuples of equal length.
LexLess(a, b) ==
    \E k \in 1..Len(a) : a[k] < b[k] /\ \A m \in 1..(k - 1) : a[m] = b[m]

\* C9: for 0 <= r <= n permutations yields the n!/(n-r)! selections of r
\* pairwise distinct pool positions, each once, in lexicographic order of the
\* positions, and is then exhausted; for r > n it yields nothing.
C9_PermutationsLexicographic ==
    (pm # Idle /\ pm.x >= 0) =>
        IF pm.x > pm.n THEN pm.out = <<>>
        ELSE /\ IsPrefix(pm.out, ExpectedPermutations(pm.pool, pm.x))
             /\ pm.st = "done" =>
                   /\ pm.out = ExpectedPermutations(pm.pool, pm.x)
                   /\ Len(pm.out) * Factorial(pm.n - pm.x) = Factorial(pm.n)
             /\ pm.pool = Upto(pm.n) =>
                   /\ \A i \in 1..Len(pm.out) :
                         /\ Len(pm.out[i]) = pm.x
                         /\ \A k, m \in 1..pm.x : k # m => pm.out[i][k] # pm.out[i][m]
                   /\ \A i \in 1..(Len(pm.out) - 1) : LexLess(pm.out[i], pm.out[i + 1])

\* permutations([1,2,3]) drained: six results, the last one 3,2,1.
C9_Witness ==
    /\ pm # Idle /\ pm.st = "done" /\ pm.pool = <<1, 2, 3>> /\ pm.r = Undefined
    /\ Len(pm.out) = 6 /\ pm.out[6] = <<3, 2, 1>>

\* C35: permutations called with a negative r produces zero results and
\* raises no error, for every pool.
C35_NegativeRYieldsNothing ==
    (pm # Idle /\ pm.x < 0) => (pm.out = <<>> /\ pm.st \in {"start", "done"})

\* C40: throughout a permutations run with 0 <= r <= n, indices is a
\* permutation of 0..n-1 and, at every yield, cycles[i] lies in 1..n-i for
\* each i < r; the run starts from indices = [0..n-1] and
\* cycles = [n, n-1, ..., n-r+1], and the generator stops exactly when a
\* scan from right to left resets every cycles[i] without finding one that
\* is not zero after its decrement.
C40_PermutationsState ==
    /\ []((pm # Idle /\ 0 <= pm.x /\ pm.x <= pm.n) =>
            /\ Len(pm.indices) = pm.n
            /\ {pm.indices[k] : k \in 1..pm.n} = 0..(pm.n - 1)
            /\ Len(pm.cycles) = pm.x
            /\ \A i \in 0..(pm.x - 1) : pm.cycles[i + 1] \in 1..(pm.n - i)
            /\ pm.st = "start" =>
                  /\ pm.indices = [k \in 1..pm.n |-> k - 1]
                  /\ pm.cycles = [k \in 1..pm.x |-> pm.n - k + 1]
            /\ pm.st = "done" =>
                  \A i \in 0..(pm.x - 1) : pm.cycles[i + 1] = pm.n - i)
    /\ [][(pm # Idle /\ 0 <= pm.x /\ pm.x <= pm.n /\ pm.st = "yielded") =>
             (pm'.st = "done" <=> \A i \in 0..(pm.x - 1) : pm.cycles[i + 1] = 1)]_vars

\* permutations of three elements taken two at a time, drained, after a
\* rotation and swaps.
C40_Witness ==
    /\ pm # Idle /\ pm.st = "done" /\ pm.n = 3 /\ pm.x = 2
    /\ Len(pm.out) = 6

(***************************************************************************)
(* roundrobin                                                              *)
(***************************************************************************)
\* array.splice(index, 1) for a 0-based index.
splice(a, index) == SubSeq(a, 1, index) \o SubSeq(a, index + 2, Len(a))

\* A call of next() on iterables[index], as log records it: the input the
\* cursor belongs to (live lists the inputs of the cursors in iterables), the
\* list position and whether the cursor reported exhaustion.
Pulled(s, done) == [src |-> s.live[s.index + 1], at |-> s.index, done |-> done]

\* The loops of roundrobin from the test of the inner while to the next yield
\* or to the end.
RECURSIVE roundrobinLoop(_)
RoundrobinSkipsAfterSpliceMutant(s) ==
    IF Len(s.iterables) = 0 THEN [s EXCEPT !.st = "done"]
    ELSE IF s.index >= Len(s.iterables) THEN roundrobinLoop([s EXCEPT !.index = 0])
    ELSE IF CurDone(s.iterables[s.index + 1])
    THEN roundrobinLoop([s EXCEPT !.iterables = splice(@, s.index),
                                  !.live = splice(@, s.index),
                                  !.log = Append(@, Pulled(s, TRUE)),
                                  !.index = @ + 1])
    ELSE [s EXCEPT !.st = "yielded",
                   !.iterables[s.index + 1] = CurNext(@),
                   !.log = Append(@, Pulled(s, FALSE)),
                   !.out = Append(@, CurValue(s.iterables[s.index + 1]))]

roundrobinLoop(s) ==
    IF Len(s.iterables) = 0 THEN [s EXCEPT !.st = "done"]
    ELSE IF s.index >= Len(s.iterables) THEN roundrobinLoop([s EXCEPT !.index = 0])
    ELSE IF CurDone(s.iterables[s.index + 1])
    THEN roundrobinLoop([s EXCEPT !.iterables = splice(@, s.index),
                                  !.live = splice(@, s.index),
                                  !.log = Append(@, Pulled(s, TRUE))])
    ELSE [s EXCEPT !.st = "yielded",
                   !.iterables[s.index + 1] = CurNext(@),
                   !.log = Append(@, Pulled(s, FALSE)),
                   !.out = Append(@, CurValue(s.iterables[s.index + 1]))]

\* next() on the roundrobin cursor; resumed after a yield it first advances
\* index.
roundrobin(s) ==
    IF s.st = "done" THEN s
    ELSE IF s.st = "start" THEN roundrobinLoop(s)
    ELSE roundrobinLoop([s EXCEPT !.index = @ + 1])

\* Input j of length n holds the values 10j+1 .. 10j+n.
InputOf(j, n) == [k \in 1..n |-> 10 * j + k]

RoundrobinInit ==
    /\ \E m \in 0..MaxInputs :
       \E len \in [1..m -> 0..MaxLen] :
          rr = [iters |-> [j \in 1..m |-> InputOf(j, len[j])],
                iterables |-> [j \in 1..m |-> ArrayCursor(InputOf(j, len[j]))],
                live |-> [j \in 1..m |-> j], log |-> <<>>,
                index |-> 0, st |-> "start", out |-> <<>>]
    /\ gb = Idle /\ sl = Idle /\ tw = Idle /\ dw = Idle /\ ad = Idle /\ pm = Idle
    /\ hd = Idle /\ ch = Idle /\ du = Idle /\ tk = Idle /\ zp = Idle
    /\ zm = Idle /\ zl = Idle /\ rd = Idle /\ mm = Idle
    /\ es = Idle /\ fi = Idle /\ ue = Idle /\ uj = Idle
    /\ cy = Idle /\ ip = Idle /\ pt = Idle

\* The consumer calls next() on the roundrobin cursor.
RoundrobinPull ==
    /\ rr # Idle
    /\ rr' = roundrobin(rr)
    /\ UNCHANGED <<gb, sl, tw, dw, ad, pm, hd, ch, du, tk, zp,
                   zm, zl, rd, mm, es, fi, ue, uj,
                   cy, ip, pt>>

RoundrobinNext == RoundrobinPull

SpecRoundrobin == RoundrobinInit /\ [][RoundrobinNext]_vars

(***************************************************************************)
(* roundrobin: claims                                                      *)
(***************************************************************************)
\* The k-th elements (k counted from 1) of the inputs j..m that have one.
RECURSIVE RoundFrom(_, _, _)
RoundFrom(iters, k, j) ==
    IF j > Len(iters) THEN <<>>
    ELSE (IF Len(iters[j]) >= k THEN <<iters[j][k]>> ELSE <<>>)
         \o RoundFrom(iters, k, j + 1)

\* Rounds k, k+1, ... one after the other.
RECURSIVE RoundsFrom(_, _)
RoundsFrom(iters, k) ==
    IF RoundFrom(iters, k, 1) = <<>> THEN <<>>
    ELSE RoundFrom(iters, k, 1) \o RoundsFrom(iters, k + 1)

RECURSIVE TotalLen(_, _)
TotalLen(iters, j) ==
    IF j > Len(iters) THEN 0 ELSE Len(iters[j]) + TotalLen(iters, j + 1)

\* C10: roundrobin yields round by round, in round k the k-th element of every
\* input that has one, in the order of the inputs; every element of every
\* input appears exactly once, then roundrobin is exhausted.
C10_RoundrobinRounds ==
    rr # Idle =>
        /\ IsPrefix(rr.out, RoundsFrom(rr.iters, 1))
        /\ rr.st = "done" =>
              /\ rr.out = RoundsFrom(rr.iters, 1)
              /\ Len(rr.out) = TotalLen(rr.iters, 1)
              /\ \A j \in 1..Len(rr.iters) : \A k \in 1..Len(rr.iters[j]) :
                    Cardinality({i \in 1..Len(rr.out) : rr.out[i] = rr.iters[j][k]}) = 1

\* Three inputs of uneven lengths, drained: the short input was dropped first.
C10_Witness ==
    /\ rr # Idle /\ rr.st = "done" /\ Len(rr.iters) = 3
    /\ Len(rr.iters[1]) = 3 /\ Len(rr.iters[2]) = 1 /\ Len(rr.iters[3]) = 2
    /\ Len(rr.out) = 6

(***************************************************************************)
(* heads                                                                   *)
(***************************************************************************)
\* The inner while of heads: one round over the inputs still alive, dropping
\* the exhausted ones and pushing one value of every other onto round.
RECURSIVE headsRound(_)
headsRound(s) ==
    IF s.index >= Len(s.iterables) THEN s
    ELSE IF CurDone(s.iterables[s.index + 1])
    THEN headsRound([s EXCEPT !.iterables = splice(@, s.index),
                              !.live = splice(@, s.index),
                              !.log = Append(@, Pulled(s, TRUE))])
    ELSE headsRound([s EXCEPT !.round = Append(@, CurValue(s.iterables[s.index + 1])),
                              !.iterables[s.index + 1] = CurNext(@),
                              !.log = Append(@, Pulled(s, FALSE)),
                              !.index = @ + 1])

\* The outer while of heads from its test to the next yield or to the end.
RECURSIVE headsLoop(_)
HeadsYieldsEmptyRoundMutant(s) ==
    IF Len(s.iterables) = 0 THEN [s EXCEPT !.st = "done"]
    ELSE LET r == headsRound([s EXCEPT !.index = 0, !.round = <<>>])
         IN  [r EXCEPT !.st = "yielded", !.out = Append(@, r.round)]

headsLoop(s) ==
    IF Len(s.iterables) = 0 THEN [s EXCEPT !.st = "done"]
    ELSE LET r == headsRound([s EXCEPT !.index = 0, !.round = <<>>])
         IN  IF Len(r.round) > 0
             THEN [r EXCEPT !.st = "yielded", !.out = Append(@, r.round)]
             ELSE headsLoop(r)

\* next() on the heads cursor.
heads(s) == IF s.st = "done" THEN s ELSE headsLoop(s)

HeadsInit ==
    /\ \E m \in 0..MaxInputs :
       \E len \in [1..m -> 0..MaxLen] :
          hd = [iters |-> [j \in 1..m |-> InputOf(j, len[j])],
                iterables |-> [j \in 1..m |-> ArrayCursor(InputOf(j, len[j]))],
                live |-> [j \in 1..m |-> j], log |-> <<>>,
                index |-> 0, round |-> <<>>, st |-> "start", out |-> <<>>]
    /\ gb = Idle /\ sl = Idle /\ tw = Idle /\ dw = Idle /\ ad = Idle /\ pm = Idle
    /\ rr = Idle /\ ch = Idle /\ du = Idle /\ tk = Idle /\ zp = Idle
    /\ zm = Idle /\ zl = Idle /\ rd = Idle /\ mm = Idle
    /\ es = Idle /\ fi = Idle /\ ue = Idle /\ uj = Idle
    /\ cy = Idle /\ ip = Idle /\ pt = Idle

\* The consumer calls next() on the heads cursor.
HeadsPull ==
    /\ hd # Idle
    /\ hd' = heads(hd)
    /\ UNCHANGED <<gb, sl, tw, dw, ad, pm, rr, ch, du, tk, zp,
                   zm, zl, rd, mm, es, fi, ue, uj,
                   cy, ip, pt>>

HeadsNext == HeadsPull

SpecHeads == HeadsInit /\ [][HeadsNext]_vars

(***************************************************************************)
(* heads: claims                                                           *)
(***************************************************************************)
\* The length of the longest input, 0 when there is none.
LongestLen(iters) ==
    IF Len(iters) = 0 THEN 0
    ELSE CHOOSE n \in {Len(iters[j]) : j \in 1..Len(iters)} :
            \A j \in 1..Len(iters) : Len(iters[j]) <= n

\* C11: heads yields one array per round: the k-th array holds the k-th
\* element of every input that has one, in input order; no yielded array is
\* empty; without inputs, or with empty inputs only, nothing is yielded.
C11_HeadsRounds ==
    hd # Idle =>
        /\ \A k \in 1..Len(hd.out) :
              /\ hd.out[k] = RoundFrom(hd.iters, k, 1)
              /\ hd.out[k] # <<>>
        /\ Len(hd.out) <= LongestLen(hd.iters)
        /\ hd.st = "done" => Len(hd.out) = LongestLen(hd.iters)

\* heads([1,2,3],[4],[5,6,7,8])-shaped run, drained: rounds of 3, 2 and 1 values
\* as the shorter inputs dropped out.
C11_Witness ==
    /\ hd # Idle /\ hd.st = "done" /\ Len(hd.iters) = 3
    /\ Len(hd.iters[1]) = 3 /\ Len(hd.iters[2]) = 1 /\ Len(hd.iters[3]) = 2
    /\ Len(hd.out) = 3 /\ Len(hd.out[1]) = 3 /\ Len(hd.out[3]) = 1

(***************************************************************************)
(* itake / take                                                            *)
(***************************************************************************)
\* Cap on the number of take calls on one cursor.
MaxCalls == 3

\* The while loop of itake as Array.from drains it: count values are pulled
\* from it, or fewer when it reports exhaustion first.
RECURSIVE itakeLoop(_, _, _)
ItakePullsAheadMutant(count, it, acc) ==
    IF count <= 0 THEN [chunk |-> acc, it |-> CurNext(it)]
    ELSE IF CurDone(it) THEN [chunk |-> acc, it |-> CurNext(it)]
    ELSE itakeLoop(count - 1, CurNext(it), Append(acc, CurValue(it)))

itakeLoop(count, it, acc) ==
    IF count <= 0 THEN [chunk |-> acc, it |-> it]
    ELSE IF CurDone(it) THEN [chunk |-> acc, it |-> CurNext(it)]
    ELSE itakeLoop(count - 1, CurNext(it), Append(acc, CurValue(it)))

\* take(n, it) for a cursor it (iter(it) is it): the array taken and the
\* cursor as the call leaves it.
take(n, it) == itakeLoop(n, it, <<>>)

TakeInit ==
    /\ \E c \in FiniteCursors(MaxLen + 1) : tk = [it |-> c, calls |-> <<>>]
    /\ gb = Idle /\ sl = Idle /\ tw = Idle /\ dw = Idle /\ ad = Idle /\ pm = Idle
    /\ rr = Idle /\ hd = Idle /\ ch = Idle /\ du = Idle /\ zp = Idle
    /\ zm = Idle /\ zl = Idle /\ rd = Idle /\ mm = Idle
    /\ es = Idle /\ fi = Idle /\ ue = Idle /\ uj = Idle
    /\ cy = Idle /\ ip = Idle /\ pt = Idle

\* The consumer calls take(n, it) on the shared cursor; the call is logged
\* with the position it found the cursor at.
TakeCall ==
    /\ tk # Idle
    /\ Len(tk.calls) < MaxCalls
    /\ \E n \in -1..(MaxLen + 1) :
          LET r == take(n, tk.it)
          IN  tk' = [it |-> r.it,
                     calls |-> Append(tk.calls,
                                      [n |-> n, from |-> tk.it.pos, chunk |-> r.chunk])]
    /\ UNCHANGED <<gb, sl, tw, dw, ad, pm, rr, hd, ch, du, zp,
                   zm, zl, rd, mm, es, fi, ue, uj,
                   cy, ip, pt>>

TakeNext == TakeCall

SpecTake == TakeInit /\ [][TakeNext]_vars

(***************************************************************************)
(* chunked                                                                 *)
(***************************************************************************)
\* The for (;;) loop of chunked from take to the next yield or to the end.
RECURSIVE chunkedLoop(_)
ChunkedYieldsEmptyMutant(s) ==
    LET r == take(s.size, s.it)
    IN  [s EXCEPT !.it = r.it, !.chunk = r.chunk, !.st = "yielded",
                  !.out = Append(@, r.chunk)]

chunkedLoop(s) ==
    LET r == take(s.size, s.it)
    IN  IF Len(r.chunk) > 0
        THEN [s EXCEPT !.it = r.it, !.chunk = r.chunk, !.st = "yielded",
                       !.out = Append(@, r.chunk)]
        ELSE IF Len(r.chunk) < s.size
        THEN [s EXCEPT !.it = r.it, !.chunk = r.chunk, !.st = "done"]
        ELSE chunkedLoop([s EXCEPT !.it = r.it, !.chunk = r.chunk])

\* next() on the chunked cursor: the first pull checks size; a pull after a
\* yield first tests whether the chunk just yielded was short.
chunked(s) ==
    IF s.st \in {"done", "threw"} THEN s
    ELSE IF s.st = "start"
    THEN IF s.size < 1 THEN [s EXCEPT !.st = "threw"] ELSE chunkedLoop(s)
    ELSE IF Len(s.chunk) < s.size THEN [s EXCEPT !.st = "done"]
    ELSE chunkedLoop(s)

ChunkedInit ==
    /\ \E xs \in SeqsUpTo({1, 2}, MaxLen + 1), size \in -1..(MaxLen + 1),
          lazy \in BOOLEAN :
          ch = [iterable |-> xs, size |-> size,
                it |-> IF lazy THEN GenCursor(xs) ELSE ArrayCursor(xs),
                chunk |-> <<>>, st |-> "start", out |-> <<>>]
    /\ gb = Idle /\ sl = Idle /\ tw = Idle /\ dw = Idle /\ ad = Idle /\ pm = Idle
    /\ rr = Idle /\ hd = Idle /\ du = Idle /\ tk = Idle /\ zp = Idle
    /\ zm = Idle /\ zl = Idle /\ rd = Idle /\ mm = Idle
    /\ es = Idle /\ fi = Idle /\ ue = Idle /\ uj = Idle
    /\ cy = Idle /\ ip = Idle /\ pt = Idle

\* The consumer calls next() on the chunked cursor.
ChunkedPull ==
    /\ ch # Idle
    /\ ch' = chunked(ch)
    /\ UNCHANGED <<gb, sl, tw, dw, ad, pm, rr, hd, du, tk, zp,
                   zm, zl, rd, mm, es, fi, ue, uj,
                   cy, ip, pt>>

ChunkedNext == ChunkedPull

SpecChunked == ChunkedInit /\ [][ChunkedNext]_vars

(***************************************************************************)
(* chunked: claims                                                         *)
(***************************************************************************)
\* The concatenation of the arrays of a sequence of arrays.
RECURSIVE Flatten(_)
Flatten(xss) == IF xss = <<>> THEN <<>> ELSE Head(xss) \o Flatten(Tail(xss))

\* C12: for a finite input and size >= 1 the chunks concatenated are the
\* input, in order; every chunk but the last has exactly size elements, the
\* last has 1..size, and no empty chunk is yielded (exact multiples and the
\* empty input included).
C12_ChunkedPartitions ==
    (ch # Idle /\ ch.size >= 1) =>
        /\ IsPrefix(Flatten(ch.out), ch.iterable)
        /\ \A k \in 1..Len(ch.out) :
              /\ Len(ch.out[k]) >= 1
              /\ Len(ch.out[k]) <= ch.size
              /\ k < Len(ch.out) => Len(ch.out[k]) = ch.size
        /\ ch.st = "done" => Flatten(ch.out) = ch.iterable
        /\ ch.st # "threw"

\* An input whose length is an exact multiple of size, drained: two full
\* chunks and nothing after them.
C12_Witness ==
    /\ ch # Idle /\ ch.st = "done" /\ ch.size = 2 /\ Len(ch.iterable) = 4
    /\ Len(ch.out) = 2

(***************************************************************************)
(* take: claims                                                            *)
(***************************************************************************)
\* The smaller of two integers.
Min2(a, b) == IF a < b THEN a ELSE b

\* C19: take(n, c) on a shared one-shot cursor pulls exactly
\* min(n, remaining) elements and never one more: successive calls return
\* consecutive, non-overlapping segments of the underlying sequence with
\* nothing skipped, and take(0, c) pulls nothing.
C19_TakeSegments ==
    tk # Idle =>
        /\ \A i \in 1..Len(tk.calls) :
              LET c == tk.calls[i]
                  m == IF c.n < 0 THEN 0 ELSE Min2(c.n, Len(tk.it.src) - c.from)
              IN  /\ c.chunk = SubSeq(tk.it.src, c.from + 1, c.from + m)
                  /\ c.from = IF i = 1 THEN 0
                              ELSE tk.calls[i - 1].from + Len(tk.calls[i - 1].chunk)
                  /\ c.n = 0 => c.chunk = <<>>
        /\ Len(tk.calls) > 0 =>
              tk.it.pos = tk.calls[Len(tk.calls)].from
                             + Len(tk.calls[Len(tk.calls)].chunk)

\* take 0, 2, 2 on a cursor over four elements: nothing, then two
\* consecutive segments that together are the whole sequence.
C19_Witness ==
    /\ tk # Idle /\ Len(tk.calls) = 3 /\ Len(tk.it.src) = 4
    /\ tk.calls[1].n = 0 /\ tk.calls[2].n = 2 /\ tk.calls[3].n = 2
    /\ tk.calls[2].chunk \o tk.calls[3].chunk = tk.it.src

(***************************************************************************)
(* dupes                                                                   *)
(***************************************************************************)
\* A Map is the sequence of its entries [key, value] in insertion order.
MapHas(m, key) == \E i \in 1..Len(m) : m[i].key = key

MapGet(m, key) == m[CHOOSE i \in 1..Len(m) : m[i].key = key].value

\* map.set(key, value): a new key is appended, a present key keeps its place.
MapSet(m, key, value) ==
    IF MapHas(m, key)
    THEN [i \in 1..Len(m) |-> IF m[i].key = key THEN [key |-> key, value |-> value]
                              ELSE m[i]]
    ELSE Append(m, [key |-> key, value |-> value])

MapDelete(m, key) == SelectSeq(m, LAMBDA e : e.key # key)

\* [...map.values()]
MapValues(m) == [i \in 1..Len(m) |-> m[i].value]

\* The body of the for-of of dupes for one item.
DupesForgetsSingleMutant(s, fn, item) ==
    LET key == keyFn(fn, item)
    IN  IF MapHas(s.multiples, key)
        THEN [s EXCEPT !.multiples = MapSet(@, key, Append(MapGet(@, key), item))]
        ELSE IF MapHas(s.singles, key)
        THEN [multiples |-> MapSet(s.multiples, key, <<item>>),
              singles |-> MapDelete(s.singles, key)]
        ELSE [s EXCEPT !.singles = MapSet(@, key, item)]

dupesStep(s, fn, item) ==
    LET key == keyFn(fn, item)
    IN  IF MapHas(s.multiples, key)
        THEN [s EXCEPT !.multiples = MapSet(@, key, Append(MapGet(@, key), item))]
        ELSE IF MapHas(s.singles, key)
        THEN [multiples |-> MapSet(s.multiples, key, <<MapGet(s.singles, key), item>>),
              singles |-> MapDelete(s.singles, key)]
        ELSE [s EXCEPT !.singles = MapSet(@, key, item)]

\* The for-of of dupes over the items from position i on.
RECURSIVE dupesLoop(_, _, _, _)
dupesLoop(s, fn, iterable, i) ==
    IF i > Len(iterable) THEN s
    ELSE dupesLoop(dupesStep(s, fn, iterable[i]), fn, iterable, i + 1)

\* dupes(iterable, keyFn): the whole input is consumed by the call, which
\* returns the cursor multiples.values().
dupes(iterable, fn) ==
    ArrayCursor(MapValues(
        dupesLoop([multiples |-> <<>>, singles |-> <<>>], fn, iterable, 1).multiples))

DupesInit ==
    /\ \E xs \in SeqsUpTo(Letters, MaxLen + 1), fn \in KeyFns :
          du = [iterable |-> xs, keyFn |-> fn, st |-> "start",
                result |-> ArrayCursor(<<>>), out |-> <<>>]
    /\ gb = Idle /\ sl = Idle /\ tw = Idle /\ dw = Idle /\ ad = Idle /\ pm = Idle
    /\ rr = Idle /\ hd = Idle /\ ch = Idle /\ tk = Idle /\ zp = Idle
    /\ zm = Idle /\ zl = Idle /\ rd = Idle /\ mm = Idle
    /\ es = Idle /\ fi = Idle /\ ue = Idle /\ uj = Idle
    /\ cy = Idle /\ ip = Idle /\ pt = Idle

\* The call dupes(iterable, keyFn).
DupesCall ==
    /\ du # Idle /\ du.st = "start"
    /\ du' = [du EXCEPT !.st = "returned", !.result = dupes(du.iterable, du.keyFn)]
    /\ UNCHANGED <<gb, sl, tw, dw, ad, pm, rr, hd, ch, tk, zp,
                   zm, zl, rd, mm, es, fi, ue, uj,
                   cy, ip, pt>>

\* The consumer calls next() on the returned cursor.
DupesPull ==
    /\ du # Idle /\ du.st = "returned"
    /\ du' = [du EXCEPT !.result = CurNext(@),
                        !.out = IF CurDone(du.result) THEN @
                                ELSE Append(@, CurValue(du.result))]
    /\ UNCHANGED <<gb, sl, tw, dw, ad, pm, rr, hd, ch, tk, zp,
                   zm, zl, rd, mm, es, fi, ue, uj,
                   cy, ip, pt>>

DupesNext == DupesCall \/ DupesPull

SpecDupes == DupesInit /\ [][DupesNext]_vars

(***************************************************************************)
(* dupes: claims                                                           *)
(***************************************************************************)
\* The positions of the input whose key is k.
KeyPositions(xs, fn, k) == {i \in 1..Len(xs) : keyFn(fn, xs[i]) = k}

\* The position of the second occurrence of a key that occurs twice.
SecondOccurrence(xs, fn, k) ==
    CHOOSE i \in KeyPositions(xs, fn, k) :
        Cardinality({j \in KeyPositions(xs, fn, k) : j < i}) = 1

\* C13: dupes returns one group for every key that occurs at least twice and
\* none for a key that occurs once; a group holds all elements with its key in
\* input order; the groups are ordered by the position of the second
\* occurrence of their keys.
C13_DupesGroups ==
    (du # Idle /\ du.st = "returned") =>
        LET xs == du.iterable
            fn == du.keyFn
            groups == du.result.src
            keyOf(g) == keyFn(fn, groups[g][1])
        IN  /\ IsPrefix(du.out, groups)
            /\ CurDone(du.result) => du.out = groups
            /\ \A g \in 1..Len(groups) :
                  /\ Len(groups[g]) >= 2
                  /\ groups[g] = SelectSeq(xs, LAMBDA x : keyFn(fn, x) = keyOf(g))
            /\ \A i \in 1..Len(xs) :
                  Cardinality(KeyPositions(xs, fn, keyFn(fn, xs[i]))) >= 2
                     => \E g \in 1..Len(groups) : keyOf(g) = keyFn(fn, xs[i])
            /\ \A g, h \in 1..Len(groups) :
                  g < h => SecondOccurrence(xs, fn, keyOf(g))
                              < SecondOccurrence(xs, fn, keyOf(h))

\* Two duplicated keys whose second occurrences come in the opposite order
\* of their first occurrences, the returned cursor drained.
C13_Witness ==
    /\ du # Idle /\ du.st = "returned" /\ CurDone(du.result)
    /\ du.iterable = <<"a", "b", "b", "a">> /\ du.keyFn = "primitiveIdentity"
    /\ du.out = << <<"b", "b">>, <<"a", "a">> >>

(***************************************************************************)
(* izip2 and izip3                                                         *)
(***************************************************************************)
\* next() on the izip2 cursor: one pass of its for (;;).  log records the
\* next() calls made on the inputs, by the number of the input.
Izip2ShortCircuitMutant(s) ==
    IF s.st = "done" THEN s
    ELSE LET x == s.its[1]
             y == s.its[2]
         IN  IF CurDone(x)
             THEN [s EXCEPT !.log = @ \o <<1>>, !.st = "done"]
             ELSE IF CurDone(y)
             THEN [s EXCEPT !.its = <<CurNext(x), y>>, !.log = @ \o <<1, 2>>,
                            !.st = "done"]
             ELSE [s EXCEPT !.its = <<CurNext(x), CurNext(y)>>,
                            !.log = @ \o <<1, 2>>, !.st = "yielded",
                            !.out = Append(@, <<CurValue(x), CurValue(y)>>)]

izip2(s) ==
    IF s.st = "done" THEN s
    ELSE LET x == s.its[1]
             y == s.its[2]
             t == [s EXCEPT !.its = <<CurNext(x), CurNext(y)>>,
                            !.log = @ \o <<1, 2>>]
         IN  IF ~CurDone(x) /\ ~CurDone(y)
             THEN [t EXCEPT !.st = "yielded",
                            !.out = Append(@, <<CurValue(x), CurValue(y)>>)]
             ELSE [t EXCEPT !.st = "done"]

\* next() on the izip3 cursor.
izip3(s) ==
    IF s.st = "done" THEN s
    ELSE LET x == s.its[1]
             y == s.its[2]
             z == s.its[3]
             t == [s EXCEPT !.its = <<CurNext(x), CurNext(y), CurNext(z)>>,
                            !.log = @ \o <<1, 2, 3>>]
         IN  IF ~CurDone(x) /\ ~CurDone(y) /\ ~CurDone(z)
             THEN [t EXCEPT !.st = "yielded",
                            !.out = Append(@, <<CurValue(x), CurValue(y), CurValue(z)>>)]
             ELSE [t EXCEPT !.st = "done"]

IzipInit ==
    /\ \E n \in {2, 3}, lazy \in BOOLEAN :
       \E len \in [1..n -> 0..MaxLen] :
          zp = [iters |-> [j \in 1..n |-> InputOf(j, len[j])],
                its |-> [j \in 1..n |-> IF lazy THEN GenCursor(InputOf(j, len[j]))
                                        ELSE ArrayCursor(InputOf(j, len[j]))],
                st |-> "start", out |-> <<>>, log |-> <<>>]
    /\ gb = Idle /\ sl = Idle /\ tw = Idle /\ dw = Idle /\ ad = Idle /\ pm = Idle
    /\ rr = Idle /\ hd = Idle /\ ch = Idle /\ du = Idle /\ tk = Idle
    /\ zm = Idle /\ zl = Idle /\ rd = Idle /\ mm = Idle
    /\ es = Idle /\ fi = Idle /\ ue = Idle /\ uj = Idle
    /\ cy = Idle /\ ip = Idle /\ pt = Idle

\* The consumer calls next() on the cursor izip2(xs, ys).
Izip2Pull ==
    /\ zp # Idle /\ Len(zp.iters) = 2
    /\ zp' = izip2(zp)
    /\ UNCHANGED <<gb, sl, tw, dw, ad, pm, rr, hd, ch, du, tk,
                   zm, zl, rd, mm, es, fi, ue, uj,
                   cy, ip, pt>>

\* The consumer calls next() on the cursor izip3(xs, ys, zs).
Izip3Pull ==
    /\ zp # Idle /\ Len(zp.iters) = 3
    /\ zp' = izip3(zp)
    /\ UNCHANGED <<gb, sl, tw, dw, ad, pm, rr, hd, ch, du, tk,
                   zm, zl, rd, mm, es, fi, ue, uj,
                   cy, ip, pt>>

IzipNext == Izip2Pull \/ Izip3Pull

SpecIzip == IzipInit /\ [][IzipNext]_vars

(***************************************************************************)
(* izip2 and izip3: claims                                                 *)
(***************************************************************************)
\* The length of the shortest input.
ShortestLen(iters) ==
    CHOOSE m \in {Len(iters[j]) : j \in 1..Len(iters)} :
        \A j \in 1..Len(iters) : m <= Len(iters[j])

\* C20: izip2 and izip3 yield exactly min(input lengths) tuples, the k-th
\* holding the k-th element of each input; every round pulls the inputs in
\* lock-step from left to right, one element from each, and the cursor is
\* exhausted in the first round in which an input reports exhaustion.
C20_IzipLockStep ==
    zp # Idle =>
        LET n == Len(zp.iters)
            m == ShortestLen(zp.iters)
            rounds == Len(zp.out) + (IF zp.st = "done" THEN 1 ELSE 0)
        IN  /\ Len(zp.out) <= m
            /\ \A k \in 1..Len(zp.out) :
                  zp.out[k] = [j \in 1..n |-> zp.iters[j][k]]
            /\ Len(zp.log) = n * rounds
            /\ \A i \in 1..Len(zp.log) : zp.log[i] = ((i - 1) % n) + 1
            /\ \A j \in 1..n : zp.its[j].pos = Min2(Len(zp.iters[j]), rounds)
            /\ zp.st = "done" => Len(zp.out) = m

\* izip3 over inputs of the lengths 3, 1 and 2, drained: one tuple, and a
\* second round in which every input was pulled once more.
C20_Witness ==
    /\ zp # Idle /\ zp.st = "done" /\ Len(zp.iters) = 3
    /\ Len(zp.iters[1]) = 3 /\ Len(zp.iters[2]) = 1 /\ Len(zp.iters[3]) = 2
    /\ Len(zp.out) = 1 /\ zp.log = <<1, 2, 3, 1, 2, 3>>
    /\ zp.its[1].pos = 2

(***************************************************************************)
(* izipMany                                                                *)
(***************************************************************************)
\* next() on the izipMany cursor: one pass of its for (;;).  iterables.map
\* calls next() on every input, from left to right, before all() looks at
\* the results.
IzipManyAnyMutant(s) ==
    IF s.st = "done" THEN s
    ELSE LET n == Len(s.its)
             t == [s EXCEPT !.its = [j \in 1..n |-> CurNext(s.its[j])],
                            !.log = @ \o [j \in 1..n |-> j]]
         IN  IF \E j \in 1..n : ~CurDone(s.its[j])
             THEN [t EXCEPT !.st = "yielded",
                            !.out = Append(@, [j \in 1..n |->
                                                 IF CurDone(s.its[j]) THEN Undefined
                                                 ELSE CurValue(s.its[j])])]
             ELSE [t EXCEPT !.st = "done"]

izipMany(s) ==
    IF s.st = "done" THEN s
    ELSE LET n == Len(s.its)
             t == [s EXCEPT !.its = [j \in 1..n |-> CurNext(s.its[j])],
                            !.log = @ \o [j \in 1..n |-> j]]
         IN  IF \A j \in 1..n : ~CurDone(s.its[j])
             THEN [t EXCEPT !.st = "yielded",
                            !.out = Append(@, [j \in 1..n |-> CurValue(s.its[j])])]
             ELSE [t EXCEPT !.st = "done"]

IzipManyInit ==
    /\ \E n \in 0..MaxInputs, lazy \in BOOLEAN :
       \E len \in [1..n -> 0..MaxLen] :
          zm = [iters |-> [j \in 1..n |-> InputOf(j, len[j])],
                its |-> [j \in 1..n |-> IF lazy THEN GenCursor(InputOf(j, len[j]))
                                        ELSE ArrayCursor(InputOf(j, len[j]))],
                st |-> "start", out |-> <<>>, log |-> <<>>]
    /\ gb = Idle /\ sl = Idle /\ tw = Idle /\ dw = Idle /\ ad = Idle /\ pm = Idle
    /\ rr = Idle /\ hd = Idle /\ ch = Idle /\ du = Idle /\ tk = Idle /\ zp = Idle
    /\ zl = Idle /\ rd = Idle /\ mm = Idle
    /\ es = Idle /\ fi = Idle /\ ue = Idle /\ uj = Idle
    /\ cy = Idle /\ ip = Idle /\ pt = Idle

\* The consumer calls next() on the izipMany cursor.  Without inputs the
\* cursor never ends, so the pulls are capped.
IzipManyPull ==
    /\ zm # Idle
    /\ Len(zm.out) < MaxPulls
    /\ zm' = izipMany(zm)
    /\ UNCHANGED <<gb, sl, tw, dw, ad, pm, rr, hd, ch, du, tk, zp,
                   zl, rd, mm, es, fi, ue, uj,
                   cy, ip, pt>>

IzipManyNext == IzipManyPull

SpecIzipMany == IzipManyInit /\ [][IzipManyNext]_vars

(***************************************************************************)
(* izipMany: claims                                                        *)
(***************************************************************************)
\* C21: izipMany pulls one element from every input per round and yields the
\* array of them, in input order, only if none of the pulled results is
\* exhausted; when an input reports exhaustion the combinator is exhausted,
\* so one or more finite inputs give exactly min(input lengths) arrays.
C21_IzipManyShortest ==
    (zm # Idle /\ Len(zm.iters) >= 1) =>
        LET n == Len(zm.iters)
            m == ShortestLen(zm.iters)
            rounds == Len(zm.out) + (IF zm.st = "done" THEN 1 ELSE 0)
        IN  /\ Len(zm.out) <= m
            /\ \A k \in 1..Len(zm.out) :
                  zm.out[k] = [j \in 1..n |-> zm.iters[j][k]]
            /\ Len(zm.log) = n * rounds
            /\ \A i \in 1..Len(zm.log) : zm.log[i] = ((i - 1) % n) + 1
            /\ \A j \in 1..n : zm.its[j].pos = Min2(Len(zm.iters[j]), rounds)
            /\ zm.st = "done" => Len(zm.out) = m

\* Three inputs of the lengths 3, 2 and 3, drained: two arrays, and a third
\* round in which the second input reported exhaustion.
C21_Witness ==
    /\ zm # Idle /\ zm.st = "done" /\ Len(zm.iters) = 3
    /\ Len(zm.iters[1]) = 3 /\ Len(zm.iters[2]) = 2 /\ Len(zm.iters[3]) = 3
    /\ Len(zm.out) = 2 /\ Len(zm.log) = 9

\* C39: for every number of finite inputs, zero included, draining izipMany
\* terminates: the cursor yields no more arrays than its longest input has
\* elements (none without inputs) before it reports exhaustion.
C39_IzipManyTerminates ==
    zm # Idle => Len(zm.out) <= LongestLen(zm.iters)

(***************************************************************************)
(* izipLongest2 and izipLongest3                                           *)
(***************************************************************************)
\* The fillers of the model: the default, undefined, and the number 0.
Fillers == {Undefined, Num(0)}

\* !x.done ? x.value : filler_
ValueOrFiller(c, filler) == IF ~CurDone(c) THEN CurValue(c) ELSE filler

\* next() on the izipLongest2 cursor: one pass of its for (;;).
IzipLongest2StopsAtShortestMutant(s) ==
    IF s.st = "done" THEN s
    ELSE LET x == s.its[1]
             y == s.its[2]
             t == [s EXCEPT !.its = <<CurNext(x), CurNext(y)>>,
                            !.log = @ \o <<1, 2>>]
         IN  IF CurDone(x) \/ CurDone(y)
             THEN [t EXCEPT !.st = "done"]
             ELSE [t EXCEPT !.st = "yielded",
                            !.out = Append(@, <<ValueOrFiller(x, s.filler),
                                                ValueOrFiller(y, s.filler)>>)]

izipLongest2(s) ==
    IF s.st = "done" THEN s
    ELSE LET x == s.its[1]
             y == s.its[2]
             t == [s EXCEPT !.its = <<CurNext(x), CurNext(y)>>,
                            !.log = @ \o <<1, 2>>]
         IN  IF CurDone(x) /\ CurDone(y)
             THEN [t EXCEPT !.st = "done"]
             ELSE [t EXCEPT !.st = "yielded",
                            !.out = Append(@, <<ValueOrFiller(x, s.filler),
                                                ValueOrFiller(y, s.filler)>>)]

\* next() on the izipLongest3 cursor.
izipLongest3(s) ==
    IF s.st = "done" THEN s
    ELSE LET x == s.its[1]
             y == s.its[2]
             z == s.its[3]
             t == [s EXCEPT !.its = <<CurNext(x), CurNext(y), CurNext(z)>>,
                            !.log = @ \o <<1, 2, 3>>]
         IN  IF CurDone(x) /\ CurDone(y) /\ CurDone(z)
             THEN [t EXCEPT !.st = "done"]
             ELSE [t EXCEPT !.st = "yielded",
                            !.out = Append(@, <<ValueOrFiller(x, s.filler),
                                                ValueOrFiller(y, s.filler),
                                                ValueOrFiller(z, s.filler)>>)]

\* The elements are numbers wrapped as JavaScript values, so that a filler
\* can stand next to them in a tuple.
NumInputOf(j, n) == [k \in 1..n |-> Num(10 * j + k)]

IzipLongestInit ==
    /\ \E n \in {2, 3}, lazy \in BOOLEAN, filler \in Fillers :
       \E len \in [1..n -> 0..MaxLen] :
          zl = [iters |-> [j \in 1..n |-> NumInputOf(j, len[j])],
                its |-> [j \in 1..n |-> IF lazy THEN GenCursor(NumInputOf(j, len[j]))
                                        ELSE ArrayCursor(NumInputOf(j, len[j]))],
                filler |-> filler, st |-> "start", out |-> <<>>, log |-> <<>>]
    /\ gb = Idle /\ sl = Idle /\ tw = Idle /\ dw = Idle /\ ad = Idle /\ pm = Idle
    /\ rr = Idle /\ hd = Idle /\ ch = Idle /\ du = Idle /\ tk = Idle /\ zp = Idle
    /\ zm = Idle /\ rd = Idle /\ mm = Idle
    /\ es = Idle /\ fi = Idle /\ ue = Idle /\ uj = Idle
    /\ cy = Idle /\ ip = Idle /\ pt = Idle

\* The consumer calls next() on the cursor izipLongest2(xs, ys, filler).
IzipLongest2Pull ==
    /\ zl # Idle /\ Len(zl.iters) = 2
    /\ zl' = izipLongest2(zl)
    /\ UNCHANGED <<gb, sl, tw, dw, ad, pm, rr, hd, ch, du, tk, zp,
                   zm, rd, mm, es, fi, ue, uj,
                   cy, ip, pt>>

\* The consumer calls next() on the cursor izipLongest3(xs, ys, zs, filler).
IzipLongest3Pull ==
    /\ zl # Idle /\ Len(zl.iters) = 3
    /\ zl' = izipLongest3(zl)
    /\ UNCHANGED <<gb, sl, tw, dw, ad, pm, rr, hd, ch, du, tk, zp,
                   zm, rd, mm, es, fi, ue, uj,
                   cy, ip, pt>>

IzipLongestNext == IzipLongest2Pull \/ IzipLongest3Pull

SpecIzipLongest == IzipLongestInit /\ [][IzipLongestNext]_vars

(***************************************************************************)
(* izipLongest2 and izipLongest3: claims                                   *)
(***************************************************************************)
\* C22: izipLongest2 and izipLongest3 yield exactly max(input lengths)
\* tuples; position j of the k-th tuple holds the k-th element of input j if
\* it has one and the filler (default undefined) otherwise; iteration stops
\* only in the round in which all inputs report exhaustion.
C22_IzipLongestFills ==
    zl # Idle =>
        LET n == Len(zl.iters)
            m == LongestLen(zl.iters)
            rounds == Len(zl.out) + (IF zl.st = "done" THEN 1 ELSE 0)
        IN  /\ Len(zl.out) <= m
            /\ \A k \in 1..Len(zl.out) :
                  zl.out[k] = [j \in 1..n |-> IF k <= Len(zl.iters[j])
                                              THEN zl.iters[j][k] ELSE zl.filler]
            /\ Len(zl.log) = n * rounds
            /\ zl.st = "done" => Len(zl.out) = m

\* zipLongest('x', 'abc', 0)-shaped run, drained: three tuples, the last two
\* with the filler 0 in the first position.
C22_Witness ==
    /\ zl # Idle /\ zl.st = "done" /\ Len(zl.iters) = 2 /\ zl.filler = Num(0)
    /\ Len(zl.iters[1]) = 1 /\ Len(zl.iters[2]) = 3
    /\ Len(zl.out) = 3 /\ zl.out[2][1] = Num(0) /\ zl.out[3][1] = Num(0)

(***************************************************************************)
(* JavaScript values beside numbers, undefined and null.                   *)
(***************************************************************************)
NaN == [type |-> "NaN"]

Str(s) == [type |-> "string", value |-> s]

\* An object {n: n}; id tells apart two objects with equal contents.
Obj(id, n) == [type |-> "object", id |-> id, n |-> n]

\* The outcome of a call that threw.
Threw == [type |-> "error"]

(***************************************************************************)
(* find, reduce, sum                                                       *)
(***************************************************************************)
\* The call p(x, index) of a test predicate on a JavaScript value: comparing
\* or dividing anything but a number is false.
JsApply(p, x, index) ==
    IF p = "isEvenIndex" THEN isEvenIndex(x, index)
    ELSE x.type = "number" /\ Apply(p, x.value, index)

\* The while loop of find with a predicate, i elements in.
RECURSIVE findLoop(_, _, _)
findLoop(it, p, i) ==
    IF CurDone(it) THEN [value |-> Undefined, it |-> CurNext(it)]
    ELSE IF JsApply(p, CurValue(it), Num(i))
    THEN [value |-> CurValue(it), it |-> CurNext(it)]
    ELSE findLoop(CurNext(it), p, i + 1)

\* A predicate passed as an argument: a function value, never undefined.
Fn(name) == [type |-> "function", name |-> name]

\* find(it, predicate) of builtins for a cursor it: the value returned and the
\* cursor as the call leaves it.  Without a predicate it is one next().
find(it, p) ==
    IF p = Undefined
    THEN [value |-> IF CurDone(it) THEN Undefined ELSE CurValue(it),
          it |-> CurNext(it)]
    ELSE findLoop(it, p.name, 0)

\* The key functions of the model: the default of max and min,
\* numberIdentity, which throws on anything but a number, and (o) => o.n.
keyOf(fn, x) ==
    IF fn = "numberIdentity"
    THEN IF x.type = "number" THEN x ELSE Threw
    ELSE Num(x.n)

\* The reducer of max, (x, y) => (keyFn(x) > keyFn(y) ? x : y), and of min,
\* with < for >; a key function that throws makes the reducer throw.
MinMaxPrefersFirstMutant(op, fn, x, y) ==
    IF keyOf(fn, x) = Threw \/ keyOf(fn, y) = Threw THEN Threw
    ELSE IF op = "max"
    THEN IF keyOf(fn, x).value >= keyOf(fn, y).value THEN x ELSE y
    ELSE IF keyOf(fn, x).value <= keyOf(fn, y).value THEN x ELSE y

minMaxReducer(op, fn, x, y) ==
    IF keyOf(fn, x) = Threw \/ keyOf(fn, y) = Threw THEN Threw
    ELSE IF op = "max"
    THEN IF keyOf(fn, x).value > keyOf(fn, y).value THEN x ELSE y
    ELSE IF keyOf(fn, x).value < keyOf(fn, y).value THEN x ELSE y

\* The reducers of the tests: adder is (x, y) => x + y, cons builds the term
\* f(agg, item, index) without evaluating it.
Reducers == {[op |-> "adder"], [op |-> "cons"]}

\* reducer(agg, item, index), for the reducers above and those of max and min.
reducer(r, agg, item, index) ==
    IF r.op = "adder"
    THEN IF agg.type = "number" /\ item.type = "number"
         THEN Num(agg.value + item.value) ELSE NaN
    ELSE IF r.op = "cons"
    THEN [type |-> "cons", agg |-> agg, item |-> item, index |-> index]
    ELSE minMaxReducer(r.op, r.keyFn, agg, item)

\* The for-of of reduce3: f holds output, index and the log of the calls of
\* the reducer.  A reducer that throws ends the call.
RECURSIVE reduce3Loop(_, _, _)
Reduce3IndexFromOneMutant(it, r, f) ==
    IF f.output = Threw THEN f
    ELSE IF CurDone(it) THEN [f EXCEPT !.it = CurNext(it)]
    ELSE reduce3Loop(CurNext(it), r,
             [f EXCEPT !.output = reducer(r, f.output, CurValue(it), f.index + 1),
                       !.index = @ + 1,
                       !.calls = Append(@, [agg |-> f.output, item |-> CurValue(it),
                                            index |-> f.index + 1])])

reduce3Loop(it, r, f) ==
    IF f.output = Threw THEN f
    ELSE IF CurDone(it) THEN [f EXCEPT !.it = CurNext(it)]
    ELSE reduce3Loop(CurNext(it), r,
             [f EXCEPT !.output = reducer(r, f.output, CurValue(it), f.index),
                       !.index = @ + 1,
                       !.calls = Append(@, [agg |-> f.output, item |-> CurValue(it),
                                            index |-> f.index])])

reduce3(it, r, start) ==
    reduce3Loop(it, r, [output |-> start, index |-> 0, calls |-> <<>>, it |-> it])

\* reduce2: the first element, found by find, is the start value.
reduce2(it, r) ==
    LET start == find(it, Undefined)
    IN  IF start.value = Undefined
        THEN [output |-> Undefined, index |-> 0, calls |-> <<>>, it |-> start.it]
        ELSE reduce3(start.it, r, start.value)

reduce(it, r, start) ==
    IF start = Undefined THEN reduce2(it, r) ELSE reduce3(it, r, start)

\* sum(iterable)
sum(it) == reduce(it, [op |-> "adder"], Num(0)).output

\* The elements of the inputs of reduce.
ReduceValues == {Num(1), Num(2), Undefined}

ReduceInit ==
    /\ \E xs \in SeqsUpTo(ReduceValues, MaxLen), r \in Reducers,
          start \in {Undefined, Num(0), Num(1)}, lazy \in BOOLEAN :
          rd = [iterable |-> xs,
                it |-> IF lazy THEN GenCursor(xs) ELSE ArrayCursor(xs),
                reducer |-> r, start |-> start, st |-> "start",
                result |-> Undefined, sum |-> Undefined, calls |-> <<>>]
    /\ gb = Idle /\ sl = Idle /\ tw = Idle /\ dw = Idle /\ ad = Idle /\ pm = Idle
    /\ rr = Idle /\ hd = Idle /\ ch = Idle /\ du = Idle /\ tk = Idle /\ zp = Idle
    /\ zm = Idle /\ zl = Idle /\ mm = Idle
    /\ es = Idle /\ fi = Idle /\ ue = Idle /\ uj = Idle
    /\ cy = Idle /\ ip = Idle /\ pt = Idle

\* The call reduce(iterable, reducer, start); sum(iterable) on an equal
\* input is recorded beside it.
ReduceCall ==
    /\ rd # Idle /\ rd.st = "start"
    /\ LET f == reduce(rd.it, rd.reducer, rd.start)
       IN  rd' = [rd EXCEPT !.st = "returned", !.it = f.it, !.result = f.output,
                            !.calls = f.calls, !.sum = sum(rd.it)]
    /\ UNCHANGED <<gb, sl, tw, dw, ad, pm, rr, hd, ch, du, tk, zp,
                   zm, zl, mm, es, fi, ue, uj,
                   cy, ip, pt>>

ReduceNext == ReduceCall

SpecReduce == ReduceInit /\ [][ReduceNext]_vars

(***************************************************************************)
(* reduce: claims                                                          *)
(***************************************************************************)
\* f(...f(f(seed, xs[from], i), xs[from+1], i+1)..., xs[n], ...), with
\* f = reducer r.
RECURSIVE FoldLeft(_, _, _, _, _)
FoldLeft(r, seed, xs, from, i) ==
    IF from > Len(xs) THEN seed
    ELSE FoldLeft(r, reducer(r, seed, xs[from], i), xs, from + 1, i + 1)

\* The arithmetic sum of a sequence of numbers.
RECURSIVE SumOf(_)
SumOf(xs) == IF xs = <<>> THEN 0 ELSE Head(xs).value + SumOf(Tail(xs))

\* C23: reduce(xs, f, seed) is the left fold over xs from seed: the reducer is
\* called once per element, in input order, with the 0-based count of the
\* elements folded so far; an empty input returns seed without a call; and
\* reduce(xs, add, 0) equals sum(xs) for numeric xs.
C23_ReduceIsLeftFold ==
    (rd # Idle /\ rd.st = "returned" /\ rd.start # Undefined) =>
        LET xs == rd.iterable
        IN  /\ rd.result = FoldLeft(rd.reducer, rd.start, xs, 1, 0)
            /\ Len(rd.calls) = Len(xs)
            /\ \A k \in 1..Len(xs) :
                  /\ rd.calls[k].item = xs[k]
                  /\ rd.calls[k].index = k - 1
                  /\ rd.calls[k].agg = IF k = 1 THEN rd.start
                                       ELSE reducer(rd.reducer, rd.calls[k - 1].agg,
                                                    xs[k - 1], k - 2)
            /\ xs = <<>> => rd.result = rd.start
            /\ (rd.reducer.op = "adder" /\ rd.start = Num(0)
                   /\ \A k \in 1..Len(xs) : xs[k].type = "number")
               => (rd.result = Num(SumOf(xs)) /\ rd.sum = rd.result)

\* reduce([1, 2, 2], f, 1) with the uninterpreted reducer: three calls, the
\* last with index 2.
C23_Witness ==
    /\ rd # Idle /\ rd.st = "returned" /\ rd.start = Num(1)
    /\ rd.reducer.op = "cons" /\ rd.iterable = <<Num(1), Num(2), Num(2)>>
    /\ Len(rd.calls) = 3 /\ rd.result.index = 2

\* C24: reduce(xs, f) without a start value uses the first upstream element
\* as the seed and folds the remaining elements onto it from left to right;
\* for an empty input it returns undefined and the reducer is never called.
C24_ReduceWithoutStart ==
    (rd # Idle /\ rd.st = "returned" /\ rd.start = Undefined) =>
        LET xs == rd.iterable
        IN  IF xs = <<>> THEN rd.result = Undefined /\ rd.calls = <<>>
            ELSE /\ rd.result = FoldLeft(rd.reducer, xs[1], xs, 2, 0)
                 /\ Len(rd.calls) = Len(xs) - 1
                 /\ \A k \in 1..Len(rd.calls) : rd.calls[k].item = xs[k + 1]

(***************************************************************************)
(* max and min                                                             *)
(***************************************************************************)
\* max(iterable, keyFn) and min(iterable, keyFn): reduce2 with their reducer.
max(it, fn) == reduce2(it, [op |-> "max", keyFn |-> fn]).output

min(it, fn) == reduce2(it, [op |-> "min", keyFn |-> fn]).output

\* Inputs: objects {n} at distinct identities with the key function byN, or
\* numbers, a string and undefined with the default key function.
MinMaxInputs ==
    {[xs |-> [i \in 1..Len(n) |-> Obj(i, n[i])], keyFn |-> "byN"] :
        n \in SeqsUpTo({1, 2}, MaxLen)}
    \cup {[xs |-> xs, keyFn |-> "numberIdentity"] :
            xs \in SeqsUpTo({Num(1), Num(2), Str("a"), Undefined}, MaxLen)}

MinMaxInit ==
    /\ \E in \in MinMaxInputs, op \in {"max", "min"} :
          mm = [iterable |-> in.xs, keyFn |-> in.keyFn, op |-> op,
                st |-> "start", result |-> Undefined]
    /\ gb = Idle /\ sl = Idle /\ tw = Idle /\ dw = Idle /\ ad = Idle /\ pm = Idle
    /\ rr = Idle /\ hd = Idle /\ ch = Idle /\ du = Idle /\ tk = Idle /\ zp = Idle
    /\ zm = Idle /\ zl = Idle /\ rd = Idle
    /\ es = Idle /\ fi = Idle /\ ue = Idle /\ uj = Idle
    /\ cy = Idle /\ ip = Idle /\ pt = Idle

\* The call max(iterable, keyFn).
MaxCall ==
    /\ mm # Idle /\ mm.st = "start" /\ mm.op = "max"
    /\ mm' = [mm EXCEPT !.st = "returned",
                        !.result = max(ArrayCursor(mm.iterable), mm.keyFn)]
    /\ UNCHANGED <<gb, sl, tw, dw, ad, pm, rr, hd, ch, du, tk, zp,
                   zm, zl, rd, es, fi, ue, uj,
                   cy, ip, pt>>

\* The call min(iterable, keyFn).
MinCall ==
    /\ mm # Idle /\ mm.st = "start" /\ mm.op = "min"
    /\ mm' = [mm EXCEPT !.st = "returned",
                        !.result = min(ArrayCursor(mm.iterable), mm.keyFn)]
    /\ UNCHANGED <<gb, sl, tw, dw, ad, pm, rr, hd, ch, du, tk, zp,
                   zm, zl, rd, es, fi, ue, uj,
                   cy, ip, pt>>

MinMaxNext == MaxCall \/ MinCall

SpecMinMax == MinMaxInit /\ [][MinMaxNext]_vars

(***************************************************************************)
(* max and min: claims                                                     *)
(***************************************************************************)
\* The key function is defined on every element of the input.
KeysDefined(xs, fn) == \A i \in 1..Len(xs) : keyOf(fn, xs[i]) # Threw

\* Position i holds an element whose key is extreme for op.
Extreme(xs, fn, op, i) ==
    \A j \in 1..Len(xs) :
        IF op = "max" THEN keyOf(fn, xs[j]).value <= keyOf(fn, xs[i]).value
        ELSE keyOf(fn, xs[j]).value >= keyOf(fn, xs[i]).value

C26_NonNumberRaises ==
    (/\ mm # Idle /\ mm.st = "returned" /\ mm.keyFn = "numberIdentity"
     /\ \E i \in 1..Len(mm.iterable) : mm.iterable[i].type # "number")
    => mm.result = Threw

(***************************************************************************)
(* every and some                                                          *)
(***************************************************************************)
\* A JavaScript boolean as a value.
Bool(b) == [type |-> "boolean", value |-> b]

\* A predicate of the tests or its inverse, (x, i) => !p(x, i).
Inverse(p) == [p EXCEPT !.neg = ~@]

\* predicate(item, index)
test(p, x, index) ==
    IF p.neg THEN ~Apply(p.name, x, index) ELSE Apply(p.name, x, index)

\* The for-of of every, index elements in.
RECURSIVE everyLoop(_, _, _)
everyLoop(it, p, index) ==
    IF CurDone(it) THEN TRUE
    ELSE IF ~test(p, CurValue(it), Num(index)) THEN FALSE
    ELSE everyLoop(CurNext(it), p, index + 1)

every(it, p) == everyLoop(it, p, 0)

\* The for-of of some, index elements in.
RECURSIVE someLoop(_, _, _)
SomeIndexStuckMutant(it, p, index) ==
    IF CurDone(it) THEN FALSE
    ELSE IF test(p, CurValue(it), Num(index)) THEN TRUE
    ELSE someLoop(CurNext(it), p, index)

someLoop(it, p, index) ==
    IF CurDone(it) THEN FALSE
    ELSE IF test(p, CurValue(it), Num(index)) THEN TRUE
    ELSE someLoop(CurNext(it), p, index + 1)

some(it, p) == someLoop(it, p, 0)

EverySomeInit ==
    /\ \E xs \in SeqsUpTo(Numbers, MaxLen), name \in Predicates :
          es = [iterable |-> xs, pred |-> [name |-> name, neg |-> FALSE],
                every |-> Undefined, everyInverse |-> Undefined,
                some |-> Undefined, someInverse |-> Undefined]
    /\ gb = Idle /\ sl = Idle /\ tw = Idle /\ dw = Idle /\ ad = Idle /\ pm = Idle
    /\ rr = Idle /\ hd = Idle /\ ch = Idle /\ du = Idle /\ tk = Idle /\ zp = Idle
    /\ zm = Idle /\ zl = Idle /\ rd = Idle /\ mm = Idle
    /\ fi = Idle /\ ue = Idle /\ uj = Idle
    /\ cy = Idle /\ ip = Idle /\ pt = Idle

\* The calls every(xs, p) and every(xs, inverse of p).
EveryCall ==
    /\ es # Idle /\ es.every = Undefined
    /\ es' = [es EXCEPT
                !.every = Bool(every(ArrayCursor(es.iterable), es.pred)),
                !.everyInverse =
                    Bool(every(ArrayCursor(es.iterable), Inverse(es.pred)))]
    /\ UNCHANGED <<gb, sl, tw, dw, ad, pm, rr, hd, ch, du, tk, zp,
                   zm, zl, rd, mm, fi, ue, uj,
                   cy, ip, pt>>

\* The calls some(xs, p) and some(xs, inverse of p).
SomeCall ==
    /\ es # Idle /\ es.some = Undefined
    /\ es' = [es EXCEPT
                !.some = Bool(some(ArrayCursor(es.iterable), es.pred)),
                !.someInverse =
                    Bool(some(ArrayCursor(es.iterable), Inverse(es.pred)))]
    /\ UNCHANGED <<gb, sl, tw, dw, ad, pm, rr, hd, ch, du, tk, zp,
                   zm, zl, rd, mm, fi, ue, uj,
                   cy, ip, pt>>

EverySomeNext == EveryCall \/ SomeCall

SpecEverySome == EverySomeInit /\ [][EverySomeNext]_vars

(***************************************************************************)
(* every and some: claims                                                  *)
(***************************************************************************)
\* !b
Not(b) == Bool(~b.value)

\* C27: every and some are duals: every(xs, p) = not some(xs, not p) and
\* some(xs, p) = not every(xs, not p) for every finite xs and predicate p;
\* for the empty input every is true and some is false whatever the predicate.
C27_EverySomeDual ==
    (es # Idle /\ es.every # Undefined /\ es.some # Undefined) =>
        /\ es.every = Not(es.someInverse)
        /\ es.some = Not(es.everyInverse)
        /\ es.iterable = <<>> =>
              /\ es.every = Bool(TRUE) /\ es.everyInverse = Bool(TRUE)
              /\ es.some = Bool(FALSE) /\ es.someInverse = Bool(FALSE)

\* An input on which every(xs, isEven) is false and some(xs, isEven) is true.
C27_Witness ==
    /\ es # Idle /\ es.pred.name = "isEven" /\ es.iterable = <<2, 1, 2>>
    /\ es.every = Bool(FALSE) /\ es.some = Bool(TRUE)

(***************************************************************************)
(* find (builtins) and first (custom)                                      *)
(***************************************************************************)
\* fn(value) in first: the predicate given, called with one argument, or
\* isDefined.
firstFn(p, x) == IF p = Undefined THEN x # Undefined ELSE JsApply(p.name, x, Undefined)

\* first(iterable, keyFn) for a cursor: a for-of that returns from inside its
\* body, which closes the cursor where it has a return().
RECURSIVE first(_, _)
first(it, p) ==
    IF CurDone(it) THEN [value |-> Undefined, it |-> CurNext(it)]
    ELSE IF firstFn(p, CurValue(it))
    THEN [value |-> CurValue(it), it |-> CurReturn(CurNext(it))]
    ELSE first(CurNext(it), p)

\* The elements of the inputs of find and first; 0 is falsy.
FindValues == {Num(0), Num(1), Undefined}

FindInit ==
    /\ \E xs \in SeqsUpTo(FindValues, MaxLen), lazy \in BOOLEAN :
          fi = [it |-> IF lazy THEN GenCursor(xs) ELSE ArrayCursor(xs),
                calls |-> <<>>]
    /\ gb = Idle /\ sl = Idle /\ tw = Idle /\ dw = Idle /\ ad = Idle /\ pm = Idle
    /\ rr = Idle /\ hd = Idle /\ ch = Idle /\ du = Idle /\ tk = Idle /\ zp = Idle
    /\ zm = Idle /\ zl = Idle /\ rd = Idle /\ mm = Idle
    /\ es = Idle /\ ue = Idle /\ uj = Idle
    /\ cy = Idle /\ ip = Idle /\ pt = Idle

\* The consumer calls find(it) or find(it, predicate) on the shared cursor;
\* the call is logged with the position it found the cursor at and with what
\* the cursor still holds afterwards.
FindCall ==
    /\ fi # Idle /\ Len(fi.calls) < MaxCalls
    /\ \E p \in {Undefined, Fn("isPositive")} :
          LET r == find(fi.it, p)
          IN  fi' = [it |-> r.it,
                     calls |-> Append(fi.calls,
                                 [fn |-> "find", p |-> p, from |-> fi.it.pos,
                                  live |-> ~fi.it.closed,
                                  value |-> r.value, rest |-> CurRest(r.it)])]
    /\ UNCHANGED <<gb, sl, tw, dw, ad, pm, rr, hd, ch, du, tk, zp,
                   zm, zl, rd, mm, es, ue, uj,
                   cy, ip, pt>>

\* The consumer calls first(it) on the shared cursor.
FirstCall ==
    /\ fi # Idle /\ Len(fi.calls) < MaxCalls
    /\ LET r == first(fi.it, Undefined)
       IN  fi' = [it |-> r.it,
                  calls |-> Append(fi.calls,
                              [fn |-> "first", p |-> Undefined, from |-> fi.it.pos,
                               live |-> ~fi.it.closed,
                               value |-> r.value, rest |-> CurRest(r.it)])]
    /\ UNCHANGED <<gb, sl, tw, dw, ad, pm, rr, hd, ch, du, tk, zp,
                   zm, zl, rd, mm, es, ue, uj,
                   cy, ip, pt>>

FindNext == FindCall \/ FirstCall

SpecFind == FindInit /\ [][FindNext]_vars

(***************************************************************************)
(* find and first: claims                                                  *)
(***************************************************************************)
\* The 1-based position of the first element of xs after position from that
\* the call c looks for, Len(xs) + 1 when there is none.
MatchAt(xs, c) ==
    LET hit(k) == IF c.fn = "first" THEN firstFn(c.p, xs[k])
                  ELSE c.p = Undefined \/ JsApply(c.p.name, xs[k], Num(k - c.from - 1))
    IN  CHOOSE k \in (c.from + 1)..(Len(xs) + 1) :
           /\ k <= Len(xs) => hit(k)
           /\ \A j \in (c.from + 1)..(k - 1) : ~hit(j)

\* C28: find and first consume a shared one-shot cursor only up to and
\* including the element they return: find without a predicate returns the
\* next element, falsy or not, and consumes one element per call, then
\* returns undefined; after first(c) the remaining elements of c are still
\* there for the next consumer, in order.
C28_FindConsumesUpToResult ==
    fi # Idle =>
        \A i \in 1..Len(fi.calls) :
            LET c == fi.calls[i]
                xs == fi.it.src
                k == MatchAt(xs, c)
            IN  c.live =>
                   /\ c.value = IF k <= Len(xs) THEN xs[k] ELSE Undefined
                   /\ c.rest = SubSeq(xs, k + 1, Len(xs))
                   /\ (c.fn = "find" /\ c.p = Undefined) => k = c.from + 1

(***************************************************************************)
(* uniqueEverseen                                                          *)
(***************************************************************************)
RECURSIVE UniqueEverseenForgetsMutant(_)
UniqueEverseenForgetsMutant(s) ==
    IF CurDone(s.it) THEN [s EXCEPT !.it = CurNext(@), !.st = "done"]
    ELSE LET item == CurValue(s.it)
             key == keyFn(s.keyFn, item)
         IN  IF key \notin s.seen
             THEN [s EXCEPT !.it = CurNext(@), !.seen = {key},
                            !.st = "yielded", !.out = Append(@, item),
                            !.idx = Append(@, CurNext(s.it).pos)]
             ELSE UniqueEverseenForgetsMutant([s EXCEPT !.it = CurNext(@)])

\* The for-of of uniqueEverseen, run until it yields or the input ends.  idx
\* records the 1-based input position of every element yielded.
RECURSIVE uniqueEverseenLoop(_)
uniqueEverseenLoop(s) ==
    IF CurDone(s.it) THEN [s EXCEPT !.it = CurNext(@), !.st = "done"]
    ELSE LET item == CurValue(s.it)
             key == keyFn(s.keyFn, item)
         IN  IF key \notin s.seen
             THEN [s EXCEPT !.it = CurNext(@), !.seen = @ \cup {key},
                            !.st = "yielded", !.out = Append(@, item),
                            !.idx = Append(@, CurNext(s.it).pos)]
             ELSE uniqueEverseenLoop([s EXCEPT !.it = CurNext(@)])

\* next() on the uniqueEverseen cursor.
uniqueEverseen(s) == IF s.st = "done" THEN s ELSE uniqueEverseenLoop(s)

UniqueEverseenInit ==
    /\ \E xs \in SeqsUpTo(Letters, MaxLen + 1), fn \in KeyFns, lazy \in BOOLEAN :
          ue = [iterable |-> xs, keyFn |-> fn,
                it |-> IF lazy THEN GenCursor(xs) ELSE ArrayCursor(xs),
                seen |-> {}, st |-> "start", out |-> <<>>, idx |-> <<>>]
    /\ gb = Idle /\ sl = Idle /\ tw = Idle /\ dw = Idle /\ ad = Idle /\ pm = Idle
    /\ rr = Idle /\ hd = Idle /\ ch = Idle /\ du = Idle /\ tk = Idle /\ zp = Idle
    /\ zm = Idle /\ zl = Idle /\ rd = Idle /\ mm = Idle
    /\ es = Idle /\ fi = Idle /\ uj = Idle
    /\ cy = Idle /\ ip = Idle /\ pt = Idle

\* The consumer calls next() on the uniqueEverseen cursor.
UniqueEverseenPull ==
    /\ ue # Idle
    /\ ue' = uniqueEverseen(ue)
    /\ UNCHANGED <<gb, sl, tw, dw, ad, pm, rr, hd, ch, du, tk, zp,
                   zm, zl, rd, mm, es, fi, uj,
                   cy, ip, pt>>

UniqueEverseenNext == UniqueEverseenPull

SpecUniqueEverseen == UniqueEverseenInit /\ [][UniqueEverseenNext]_vars

(***************************************************************************)
(* uniqueEverseen: claims                                                  *)
(***************************************************************************)
\* The positions of xs whose key occurs at no earlier position.
FirstOccurrences(xs, fn) ==
    {i \in 1..Len(xs) : \A j \in 1..(i - 1) : keyFn(fn, xs[j]) # keyFn(fn, xs[i])}

\* C29: uniqueEverseen yields an element if and only if its key has not
\* occurred earlier in the input: among the elements read so far exactly the
\* first occurrences per key are yielded, in input order, no two yielded
\* elements have the same key, and the set of keys seen only grows.
C29_UniqueEverseenFirstOccurrences ==
    /\ [](ue # Idle =>
            LET xs == ue.iterable
                fn == ue.keyFn
                read == IF ue.it.pos < Len(xs) THEN ue.it.pos ELSE Len(xs)
            IN  /\ {ue.idx[k] : k \in 1..Len(ue.idx)}
                      = {i \in FirstOccurrences(xs, fn) : i <= read}
                /\ \A k \in 1..Len(ue.idx) :
                      /\ ue.out[k] = xs[ue.idx[k]]
                      /\ k > 1 => ue.idx[k - 1] < ue.idx[k]
                /\ Len(ue.out) = Len(ue.idx)
                /\ \A k, l \in 1..Len(ue.out) :
                      k # l => keyFn(fn, ue.out[k]) # keyFn(fn, ue.out[l])
                /\ ue.seen = {keyFn(fn, xs[i]) : i \in 1..read})
    /\ [][ue # Idle /\ ue' # Idle => ue.seen \subseteq ue'.seen]_vars

\* A key that was seen comes again and is not yielded a second time, with
\* another key between the two.
C29_Witness ==
    /\ ue # Idle /\ ue.st = "done"
    /\ Len(ue.out) >= 2
    /\ \E i, j \in 1..Len(ue.iterable) :
          /\ i + 1 < j
          /\ keyFn(ue.keyFn, ue.iterable[i]) = keyFn(ue.keyFn, ue.iterable[j])
          /\ ue.iterable[i] # ue.iterable[j]
          /\ keyFn(ue.keyFn, ue.iterable[i + 1]) # keyFn(ue.keyFn, ue.iterable[i])

(***************************************************************************)
(* uniqueJustseen                                                          *)
(***************************************************************************)
RECURSIVE UniqueJustseenKeepsLastMutant(_)
UniqueJustseenKeepsLastMutant(s) ==
    IF CurDone(s.it) THEN [s EXCEPT !.it = CurNext(@), !.st = "done"]
    ELSE LET item == CurValue(s.it)
             key == keyFn(s.keyFn, item)
         IN  IF key # s.last
             THEN [s EXCEPT !.it = CurNext(@),
                            !.last = IF @ = "undefined" THEN key ELSE @,
                            !.st = "yielded", !.out = Append(@, item),
                            !.idx = Append(@, CurNext(s.it).pos)]
             ELSE UniqueJustseenKeepsLastMutant([s EXCEPT !.it = CurNext(@)])

\* The for-of of uniqueJustseen, run until it yields or the input ends; the
\* assignment last = key after the yield is folded into the step that yields.
\* idx records the 1-based input position of every element yielded.
RECURSIVE uniqueJustseenLoop(_)
uniqueJustseenLoop(s) ==
    IF CurDone(s.it) THEN [s EXCEPT !.it = CurNext(@), !.st = "done"]
    ELSE LET item == CurValue(s.it)
             key == keyFn(s.keyFn, item)
         IN  IF key # s.last
             THEN [s EXCEPT !.it = CurNext(@), !.last = key,
                            !.st = "yielded", !.out = Append(@, item),
                            !.idx = Append(@, CurNext(s.it).pos)]
             ELSE uniqueJustseenLoop([s EXCEPT !.it = CurNext(@)])

\* next() on the uniqueJustseen cursor.
uniqueJustseen(s) == IF s.st = "done" THEN s ELSE uniqueJustseenLoop(s)

\* last starts as undefined, which no key of type Primitive is.
UniqueJustseenInit ==
    /\ \E xs \in SeqsUpTo(Letters, MaxLen + 1), fn \in KeyFns, lazy \in BOOLEAN :
          uj = [iterable |-> xs, keyFn |-> fn,
                it |-> IF lazy THEN GenCursor(xs) ELSE ArrayCursor(xs),
                last |-> "undefined", st |-> "start", out |-> <<>>, idx |-> <<>>]
    /\ gb = Idle /\ sl = Idle /\ tw = Idle /\ dw = Idle /\ ad = Idle /\ pm = Idle
    /\ rr = Idle /\ hd = Idle /\ ch = Idle /\ du = Idle /\ tk = Idle /\ zp = Idle
    /\ zm = Idle /\ zl = Idle /\ rd = Idle /\ mm = Idle
    /\ es = Idle /\ fi = Idle /\ ue = Idle
    /\ cy = Idle /\ ip = Idle /\ pt = Idle

\* The consumer calls next() on the uniqueJustseen cursor.
UniqueJustseenPull ==
    /\ uj # Idle
    /\ uj' = uniqueJustseen(uj)
    /\ UNCHANGED <<gb, sl, tw, dw, ad, pm, rr, hd, ch, du, tk, zp,
                   zm, zl, rd, mm, es, fi, ue,
                   cy, ip, pt>>

UniqueJustseenNext == UniqueJustseenPull

SpecUniqueJustseen == UniqueJustseenInit /\ [][UniqueJustseenNext]_vars

(***************************************************************************)
(* uniqueJustseen: claims                                                  *)
(***************************************************************************)
\* The first element of every run of a sequence of runs.
RunHeads(runs) == [k \in 1..Len(runs) |-> runs[k].elems[1]]

\* C30: uniqueJustseen yields an element if and only if it is the first
\* element or its key differs from the key of the element yielded last before
\* it: no two consecutive outputs have the same key, and the output is the
\* first element of every groupby run of the same input under the same key
\* function (a prefix of these until the input has ended).
C30_UniqueJustseenRunHeads ==
    uj # Idle =>
        LET xs == uj.iterable
            fn == uj.keyFn
            read == IF uj.it.pos < Len(xs) THEN uj.it.pos ELSE Len(xs)
            yielded == {uj.idx[k] : k \in 1..Len(uj.idx)}
            before(i) == {j \in yielded : j < i}
            prev(i) == CHOOSE j \in before(i) : \A l \in before(i) : l <= j
            runHeads == RunHeads(RunsOf(xs, fn))
        IN  /\ Len(uj.out) = Len(uj.idx)
            /\ \A k \in 1..Len(uj.idx) :
                  /\ uj.out[k] = xs[uj.idx[k]]
                  /\ k > 1 => uj.idx[k - 1] < uj.idx[k]
            /\ \A i \in 1..read :
                  i \in yielded <=>
                     \/ i = 1
                     \/ before(i) # {} /\ keyFn(fn, xs[i]) # keyFn(fn, xs[prev(i)])
            /\ \A k \in 1..(Len(uj.out) - 1) :
                  keyFn(fn, uj.out[k]) # keyFn(fn, uj.out[k + 1])
            /\ IsPrefix(uj.out, runHeads)
            /\ uj.st = "done" => uj.out = runHeads

\* A key comes back after a different key and is yielded again.
C30_Witness ==
    /\ uj # Idle /\ uj.st = "done"
    /\ \E k \in 1..(Len(uj.out) - 2) :
          keyFn(uj.keyFn, uj.out[k]) = keyFn(uj.keyFn, uj.out[k + 2])
    /\ Len(uj.out) < Len(uj.iterable)

(***************************************************************************)
(* cycle                                                                   *)
(***************************************************************************)
\* The while loop of cycle over saved: the element after position k of
\* saved, starting over at the end; the loop is left when saved is empty.
CycleReplayStuckMutant(s) ==
    IF Len(s.saved) = 0 THEN [s EXCEPT !.st = "done"]
    ELSE [s EXCEPT !.phase = "replay", !.k = 1, !.st = "yielded",
                   !.out = Append(@, s.saved[1])]

cycleReplay(s) ==
    IF Len(s.saved) = 0 THEN [s EXCEPT !.st = "done"]
    ELSE LET k == IF s.phase = "replay" /\ s.k < Len(s.saved) THEN s.k + 1 ELSE 1
         IN  [s EXCEPT !.phase = "replay", !.k = k, !.st = "yielded",
                       !.out = Append(@, s.saved[k])]

\* The for-of of cycle over the input: one next() on the input, then a yield,
\* or the replay loop when the input has ended.  pulls counts the calls of
\* next() on the input.
cycleFirstPass(s) ==
    IF CurDone(s.it)
    THEN cycleReplay([s EXCEPT !.it = CurNext(@), !.pulls = @ + 1])
    ELSE [s EXCEPT !.it = CurNext(@), !.pulls = @ + 1, !.phase = "first",
                   !.st = "yielded", !.out = Append(@, CurValue(s.it))]

\* next() on the cycle cursor: resumed after a yield of the first pass it
\* pushes the element just yielded onto saved.
cycle(s) ==
    IF s.st = "done" THEN s
    ELSE IF s.phase = "start" THEN cycleFirstPass(s)
    ELSE IF s.phase = "first"
    THEN cycleFirstPass([s EXCEPT !.saved = Append(@, s.out[Len(s.out)])])
    ELSE cycleReplay(s)

\* cycle over an array, over a generator or over the infinite count(1).
CycleInit ==
    /\ \E xs \in SeqsUpTo({1, 2}, MaxLen), kind \in {"array", "gen", "count"} :
          /\ kind = "count" => xs = <<>>
          /\ cy = [iterable |-> xs,
                   it |-> IF kind = "count" THEN CountCursor(1)
                          ELSE IF kind = "gen" THEN GenCursor(xs)
                          ELSE ArrayCursor(xs),
                   saved |-> <<>>, phase |-> "start", k |-> 0, st |-> "start",
                   out |-> <<>>, pulls |-> 0]
    /\ gb = Idle /\ sl = Idle /\ tw = Idle /\ dw = Idle /\ ad = Idle /\ pm = Idle
    /\ rr = Idle /\ hd = Idle /\ ch = Idle /\ du = Idle /\ tk = Idle /\ zp = Idle
    /\ zm = Idle /\ zl = Idle /\ rd = Idle /\ mm = Idle
    /\ es = Idle /\ fi = Idle /\ ue = Idle /\ uj = Idle
    /\ ip = Idle /\ pt = Idle

\* The consumer calls next() on the cycle cursor.
CyclePull ==
    /\ cy # Idle /\ Len(cy.out) < MaxPulls
    /\ cy' = cycle(cy)
    /\ UNCHANGED <<gb, sl, tw, dw, ad, pm, rr, hd, ch, du, tk, zp,
                   zm, zl, rd, mm, es, fi, ue, uj,
                   ip, pt>>

CycleNext == CyclePull

SpecCycle == CycleInit /\ [][CycleNext]_vars

(***************************************************************************)
(* cycle: claims                                                           *)
(***************************************************************************)
\* C31: cycle yields each element of its input as soon as it is pulled, with
\* one pull on the input per output during the first pass; once an input of
\* n >= 1 elements has ended, the i-th output is input[i mod n] and cycle
\* never reports exhaustion; over an empty input it is exhausted at once.
C31_CycleRepeatsInput ==
    cy # Idle =>
        LET xs == cy.iterable
            n == Len(xs)
            m == Len(cy.out)
        IN  IF cy.it.kind = "count"
            THEN /\ cy.st # "done"
                 /\ cy.pulls = m
                 /\ \A i \in 1..m : cy.out[i] = i
            ELSE /\ \A i \in 1..m : cy.out[i] = xs[((i - 1) % n) + 1]
                 /\ cy.pulls = IF m <= n /\ cy.st # "done" THEN m ELSE n + 1
                 /\ n >= 1 => cy.st # "done"
                 /\ (n = 0 /\ cy.st # "start") => (cy.st = "done" /\ m = 0)

\* A finite input of two or more elements has been yielded and yielded again.
C31_Witness ==
    /\ cy # Idle /\ cy.it.kind = "gen"
    /\ Len(cy.iterable) >= 2
    /\ Len(cy.out) >= 2 * Len(cy.iterable)
    /\ cy.iterable[1] # cy.iterable[2]

(***************************************************************************)
(* intersperse                                                             *)
(***************************************************************************)
\* next() on stream = flatten(izip(repeat(value), iterable)): the rest of the
\* pair flatten is in, or the next pair of izip, for which izip pulls repeat,
\* which never ends, and the input.  last is the value yielded.
streamNext(s) ==
    IF s.st = "done" THEN s
    ELSE IF s.pair # <<>>
    THEN [s EXCEPT !.pair = Tail(@), !.last = Head(s.pair), !.st = "yielded"]
    ELSE IF CurDone(s.it) THEN [s EXCEPT !.it = CurNext(@), !.st = "done"]
    ELSE [s EXCEPT !.it = CurNext(@), !.pair = <<CurValue(s.it)>>,
                   !.last = s.value, !.st = "yielded"]

IntersperseKeepsFirstMutant(s) == [s EXCEPT !.st = "start"]

\* intersperse(value, iterable): builds the stream and calls next() on it
\* once, discarding the result, before returning it.
intersperse(s) == [streamNext([s EXCEPT !.st = "start"]) EXCEPT
                      !.st = IF @ = "done" THEN "done" ELSE "start"]

IntersperseInit ==
    /\ \E xs \in SeqsUpTo({1, 2}, MaxLen + 1), v \in {-1, 0}, lazy \in BOOLEAN :
          ip = [value |-> v, iterable |-> xs,
                it |-> IF lazy THEN GenCursor(xs) ELSE ArrayCursor(xs),
                pair |-> <<>>, last |-> v, st |-> "uncalled", out |-> <<>>,
                pulls |-> 0]
    /\ gb = Idle /\ sl = Idle /\ tw = Idle /\ dw = Idle /\ ad = Idle /\ pm = Idle
    /\ rr = Idle /\ hd = Idle /\ ch = Idle /\ du = Idle /\ tk = Idle /\ zp = Idle
    /\ zm = Idle /\ zl = Idle /\ rd = Idle /\ mm = Idle
    /\ es = Idle /\ fi = Idle /\ ue = Idle /\ uj = Idle
    /\ cy = Idle /\ pt = Idle

\* The call intersperse(value, iterable).
IntersperseCall ==
    /\ ip # Idle /\ ip.st = "uncalled"
    /\ ip' = intersperse(ip)
    /\ UNCHANGED <<gb, sl, tw, dw, ad, pm, rr, hd, ch, du, tk, zp,
                   zm, zl, rd, mm, es, fi, ue, uj,
                   cy, pt>>

\* The consumer calls next() on the cursor intersperse returned; pulls counts
\* these calls.
InterspersePull ==
    /\ ip # Idle /\ ip.st # "uncalled"
    /\ LET t == streamNext(ip)
       IN  ip' = [t EXCEPT !.pulls = IF ip.st = "done" THEN @ ELSE @ + 1,
                           !.out = IF ip.st # "done" /\ t.st = "yielded"
                                   THEN Append(@, t.last) ELSE @]
    /\ UNCHANGED <<gb, sl, tw, dw, ad, pm, rr, hd, ch, du, tk, zp,
                   zm, zl, rd, mm, es, fi, ue, uj,
                   cy, pt>>

IntersperseNext == IntersperseCall \/ InterspersePull

SpecIntersperse == IntersperseInit /\ [][IntersperseNext]_vars

(***************************************************************************)
(* intersperse: claims                                                     *)
(***************************************************************************)
\* C32: intersperse(v, xs) over n elements yields nothing for n = 0 and 2n - 1
\* elements for n >= 1: the elements of xs in order at the even positions
\* (counted from 0) and v at every odd position, never first or last.
C32_IntersperseBetween ==
    (ip # Idle /\ ip.st # "uncalled") =>
        LET xs == ip.iterable
            n == Len(xs)
            m == Len(ip.out)
        IN  /\ \A i \in 1..m :
                  ip.out[i] = IF i % 2 = 1 THEN xs[(i + 1) \div 2] ELSE ip.value
            /\ m <= (IF n = 0 THEN 0 ELSE 2 * n - 1)
            /\ ip.st = "done" => m = (IF n = 0 THEN 0 ELSE 2 * n - 1)
            /\ ip.pulls > m => ip.st = "done"

\* An input of three or more elements, drained.
C32_Witness ==
    /\ ip # Idle /\ ip.st = "done"
    /\ Len(ip.iterable) >= 3 /\ Len(ip.out) = 2 * Len(ip.iterable) - 1

(***************************************************************************)
(* partition and partitionN                                                *)
(***************************************************************************)
\* The for-of of partition from position r.pos on.  calls records, for every
\* call of the predicate, the position of the item and the index passed.
RECURSIVE partitionLoop(_, _, _)
partitionLoop(xs, p, r) ==
    IF r.pos >= Len(xs) THEN r
    ELSE LET item == xs[r.pos + 1]
             hit == Apply(p, item, Num(r.index))
             t == [r EXCEPT !.pos = @ + 1, !.index = @ + 1,
                            !.calls = Append(@, [pos |-> r.pos, index |-> r.index])]
         IN  partitionLoop(xs, p,
                IF hit THEN [t EXCEPT !.buckets[1] = Append(@, item)]
                ELSE [t EXCEPT !.buckets[2] = Append(@, item)])

\* partition(iterable, predicate): [good, bad].
partition(xs, p) ==
    partitionLoop(xs, p, [pos |-> 0, index |-> 0, buckets |-> <<<<>>, <<>>>>,
                          calls |-> <<>>])

\* The inner for of partitionN: the predicates from i on, tried on item; the
\* first that holds takes the item and the outer loop continues.
RECURSIVE tryPredicates(_, _, _, _)
tryPredicates(ps, item, r, i) ==
    IF i > Len(ps)
    THEN [r EXCEPT !.buckets[Len(ps) + 1] = Append(@, item), !.index = @ + 1]
    ELSE LET t == [r EXCEPT !.calls = Append(@, [pos |-> r.pos, index |-> r.index])]
         IN  IF Apply(ps[i], item, Num(r.index))
             THEN [t EXCEPT !.buckets[i] = Append(@, item)]
             ELSE tryPredicates(ps, item, t, i + 1)

\* The outer for-of of partitionN from position r.pos on.
RECURSIVE partitionNLoop(_, _, _)
partitionNLoop(xs, ps, r) ==
    IF r.pos >= Len(xs) THEN r
    ELSE partitionNLoop(xs, ps,
            [tryPredicates(ps, xs[r.pos + 1], r, 1) EXCEPT !.pos = @ + 1])

\* partitionN(iterable, ...predicates): the buckets and rest, or an error
\* when no predicate is given.
partitionN(xs, ps) ==
    IF Len(ps) = 0 THEN [threw |-> TRUE]
    ELSE partitionNLoop(xs, ps, [pos |-> 0, index |-> 0,
                                 buckets |-> [i \in 1..(Len(ps) + 1) |-> <<>>],
                                 calls |-> <<>>])

\* Cap on the number of predicates given to partitionN.
MaxPredicates == 2

PartitionInit ==
    /\ \E xs \in SeqsUpTo(Numbers, MaxLen), ps \in SeqsUpTo(Predicates, MaxPredicates) :
          pt = [iterable |-> xs, predicates |-> ps, fn |-> "none",
                result |-> [uncalled |-> TRUE]]
    /\ gb = Idle /\ sl = Idle /\ tw = Idle /\ dw = Idle /\ ad = Idle /\ pm = Idle
    /\ rr = Idle /\ hd = Idle /\ ch = Idle /\ du = Idle /\ tk = Idle /\ zp = Idle
    /\ zm = Idle /\ zl = Idle /\ rd = Idle /\ mm = Idle
    /\ es = Idle /\ fi = Idle /\ ue = Idle /\ uj = Idle
    /\ cy = Idle /\ ip = Idle

\* The call partition(iterable, predicate).
PartitionCall ==
    /\ pt # Idle /\ pt.fn = "none" /\ Len(pt.predicates) = 1
    /\ pt' = [pt EXCEPT !.fn = "partition",
                        !.result = partition(pt.iterable, pt.predicates[1])]
    /\ UNCHANGED <<gb, sl, tw, dw, ad, pm, rr, hd, ch, du, tk, zp,
                   zm, zl, rd, mm, es, fi, ue, uj,
                   cy, ip>>

\* The call partitionN(iterable, ...predicates).
PartitionNCall ==
    /\ pt # Idle /\ pt.fn = "none"
    /\ pt' = [pt EXCEPT !.fn = "partitionN",
                        !.result = partitionN(pt.iterable, pt.predicates)]
    /\ UNCHANGED <<gb, sl, tw, dw, ad, pm, rr, hd, ch, du, tk, zp,
                   zm, zl, rd, mm, es, fi, ue, uj,
                   cy, ip>>

PartitionNext == PartitionCall \/ PartitionNCall

SpecPartition == PartitionInit /\ [][PartitionNext]_vars

(***************************************************************************)
(* partition and partitionN: claims                                        *)
(***************************************************************************)
\* The bucket an item at 0-based position k belongs in: that of the first
\* predicate that holds for (item, k), the last one when none holds.
BucketOf(xs, ps, k) ==
    LET hits == {i \in 1..Len(ps) : Apply(ps[i], xs[k + 1], Num(k))}
    IN  IF hits = {} THEN Len(ps) + 1
        ELSE CHOOSE i \in hits : \A j \in hits : i <= j

\* The items of xs, from position k on, that belong in bucket b.
RECURSIVE ItemsOfBucket(_, _, _, _)
ItemsOfBucket(xs, ps, b, k) ==
    IF k >= Len(xs) THEN <<>>
    ELSE (IF BucketOf(xs, ps, k) = b THEN <<xs[k + 1]>> ELSE <<>>)
         \o ItemsOfBucket(xs, ps, b, k + 1)

\* C34: partition and partitionN call every predicate with (item, index),
\* index the 0-based position of the item in the input, and place each
\* item, in input order, in the bucket of the first predicate that holds for
\* it or in the last bucket when none holds.
C34_PartitionByPosition ==
    (pt # Idle /\ pt.fn # "none" /\ Len(pt.predicates) > 0) =>
        /\ \A c \in 1..Len(pt.result.calls) :
              pt.result.calls[c].index = pt.result.calls[c].pos
        /\ \A b \in 1..(Len(pt.predicates) + 1) :
              pt.result.buckets[b] = ItemsOfBucket(pt.iterable, pt.predicates, b, 0)

(***************************************************************************)
(* The library: a run uses one of the combinators above.                   *)
(***************************************************************************)
Init ==
    \/ GroupbyInit
    \/ IsliceInit
    \/ TakewhileInit
    \/ DropwhileInit
    \/ AdapterInit
    \/ PermutationsInit
    \/ RoundrobinInit
    \/ HeadsInit
    \/ TakeInit
    \/ ChunkedInit
    \/ DupesInit
    \/ IzipInit
    \/ IzipManyInit
    \/ IzipLongestInit
    \/ ReduceInit
    \/ MinMaxInit
    \/ EverySomeInit
    \/ FindInit
    \/ UniqueEverseenInit
    \/ UniqueJustseenInit
    \/ CycleInit
    \/ IntersperseInit
    \/ PartitionInit

Next ==
    \/ GroupbyNext
    \/ IsliceNext
    \/ TakewhileNext
    \/ DropwhileNext
    \/ AdapterNext
    \/ PermutationsNext
    \/ RoundrobinNext
    \/ HeadsNext
    \/ TakeNext
    \/ ChunkedNext
    \/ DupesNext
    \/ IzipNext
    \/ IzipManyNext
    \/ IzipLongestNext
    \/ ReduceNext
    \/ MinMaxNext
    \/ EverySomeNext
    \/ FindNext
    \/ UniqueEverseenNext
    \/ UniqueJustseenNext
    \/ CycleNext
    \/ IntersperseNext
    \/ PartitionNext

Spec == Init /\ [][Next]_vars

\* A generator cursor that has reported exhaustion stays so and yields nothing.
StaysDone(c, d) == (c # Idle /\ c.st = "done") => (d.st = "done" /\ d.out = c.out)

\* C8: once a cursor obtained from iter or returned by a lazy combinator has
\* reported exhaustion, no later pull on it produces a value: it reports
\* exhaustion again.
C8_ExhaustionIsTerminal ==
    [][/\ StaysDone(sl, sl') /\ StaysDone(tw, tw') /\ StaysDone(dw, dw')
       /\ StaysDone(pm, pm') /\ StaysDone(rr, rr')
       /\ StaysDone(hd, hd') /\ StaysDone(ch, ch') /\ StaysDone(zp, zp')
       /\ StaysDone(zm, zm') /\ StaysDone(zl, zl')
       /\ StaysDone(ue, ue') /\ StaysDone(uj, uj')
       /\ gb # Idle =>
             /\ gb.outer = "done" =>
                   (gb'.outer = "done" /\ Len(gb'.groups) = Len(gb.groups))
             /\ \A g \in 1..Len(gb.groups) :
                   gb.groups[g].st = "done" => gb'.groups[g] = gb.groups[g]
       /\ ad # Idle =>
             /\ ad.exhausted \subseteq ad'.exhausted
             /\ \A r \in 1..Len(ad.seen) :
                   Len(ad'.seen[r]) > Len(ad.seen[r])
                      => ad'.seen[r][Len(ad'.seen[r])].w \notin ad.exhausted
      ]_vars

\* A cursor c = iter(s) reported exhaustion through one wrapper and, pulled
\* again through another, reported it again.
C8_Witness ==
    /\ ad # Idle /\ Len(ad.s) > 0
    /\ \E v, w \in ad.exhausted : v # w /\ ad.wrappers[v].root = ad.wrappers[w].root

\* A cursor nothing was pulled from: cursors at position 0.
Untouched(its) == \A j \in 1..Len(its) : its[j].pos = 0

\* C33: no lazy combinator consumes its input when it is constructed: until
\* the first pull on the cursor it returned, nothing has been pulled from its
\* input or inputs.
C33_ConstructionPullsNothing ==
    /\ (sl # Idle /\ sl.st = "start") => sl.it.pos = 0
    /\ (tw # Idle /\ tw.st = "start") => tw.it.pos = 0
    /\ (dw # Idle /\ dw.st = "start") => dw.it.pos = 0
    /\ (zp # Idle /\ zp.st = "start") => Untouched(zp.its)
    /\ (zm # Idle /\ zm.st = "start") => Untouched(zm.its)
    /\ (zl # Idle /\ zl.st = "start") => Untouched(zl.its)
    /\ (ch # Idle /\ ch.st = "start") => ch.it.pos = 0
    /\ (rr # Idle /\ rr.st = "start") => Untouched(rr.iterables)
    /\ (hd # Idle /\ hd.st = "start") => Untouched(hd.iterables)
    /\ (cy # Idle /\ cy.st = "start") => cy.it.pos = 0
    /\ (ip # Idle /\ ip.st # "uncalled" /\ ip.pulls = 0) => ip.it.pos = 0

\* The inputs that have not reported exhaustion in the first a entries of log.
LiveAfter(s, a) ==
    {j \in 1..Len(s.iters) : \A b \in 1..a : ~(s.log[b].done /\ s.log[b].src = j)}

\* The number of calls of next() on the cursor of input j.
PullsOf(s, j) == Cardinality({a \in 1..Len(s.log) : s.log[a].src = j})

\* What C36 says of the live list, for the state s of roundrobin or of heads.
LiveListDiscipline(s) ==
    /\ \A a, b \in 1..Len(s.log) :
          (a < b /\ s.log[a].done) => s.log[b].src # s.log[a].src
    /\ {s.live[k] : k \in 1..Len(s.live)} = LiveAfter(s, Len(s.log))
    /\ \A k \in 1..(Len(s.live) - 1) : s.live[k] < s.live[k + 1]
    /\ \A a \in 1..Len(s.log) :
          LET after == {j \in LiveAfter(s, a) : j > s.log[a].src}
          IN  (s.log[a].done /\ after # {}) =>
                 /\ a < Len(s.log)
                 /\ s.log[a + 1].at = s.log[a].at
                 /\ s.log[a + 1].src \in after
                 /\ \A j \in after : s.log[a + 1].src <= j
    /\ \A j \in 1..Len(s.iters) :
          /\ PullsOf(s, j) <= Len(s.iters[j]) + 1
          /\ s.st = "done" => PullsOf(s, j) = Len(s.iters[j]) + 1
    /\ s.st = "done" => s.live = <<>>
    /\ (s.live = <<>> /\ s.st # "start") => s.st = "done"

\* C36: in roundrobin and heads a source that reports exhaustion is removed
\* from the live list at once and never pulled again; the source after it is
\* tried in the same round at the same list position; the order of the live
\* sources never changes; a source of n elements is pulled n + 1 times in
\* all; the combinator is exhausted exactly when the live list is empty.
C36_ExhaustedSourcesLeaveTheList ==
    /\ rr # Idle => LiveListDiscipline(rr)
    /\ hd # Idle => LiveListDiscipline(hd)

\* roundrobin drained, in which an exhausted source was followed at its list
\* position by a source that had an element.
C36_Witness ==
    /\ rr # Idle /\ rr.st = "done" /\ Len(rr.iters) = 3
    /\ \E a \in 1..(Len(rr.log) - 1) :
          /\ rr.log[a].done /\ ~rr.log[a + 1].done
          /\ rr.log[a + 1].at = rr.log[a].at /\ rr.log[a].at = 1

====
